---- MODULE Spec2Model ----
(***************************************************************************)
(* Model of the snapshot deserializer (src/src/snapshot/deserializer.cc). *)
(*                                                                         *)
(* The decoder is a recursive byte-code interpreter.  Its activations of  *)
(* ReadData are kept on an explicit stack of frames; one action reads one  *)
(* opcode (with its inline operands) in the innermost activation, and the  *)
(* action Return models the exit of the innermost ReadData together with   *)
(* the rest of its caller's code up to the caller's next read.  The       *)
(* stream is not stored: every read draws the next opcode from the set of  *)
(* opcodes the specification at hand enumerates, so every stream over     *)
(* that alphabet (up to the length bound) is explored.                    *)
(*                                                                         *)
(* DCHECK and "#ifdef DEBUG" code exists only in debug builds; the build   *)
(* is the variable debug, chosen at Init.  CHECK and UNREACHABLE abort in *)
(* every build.                                                            *)
(***************************************************************************)
EXTENDS Integers, Sequences, FiniteSets, TLC

VARIABLES
  debug,      \* TRUE: a DEBUG build (DCHECKs are live)
  userCode,   \* deserializing_user_code()
  apiCount,   \* entries of isolate->api_external_references(), -1 = nullptr
  pc,         \* "idle" | "roots" | "deferred" | "done" | "aborted"
  stack,      \* the activations of ReadData, innermost last
  mem,        \* destination memory: address -> value written there
  objs,       \* objects allocated by ReadObject(int), in allocation order
  bump,       \* allocator: next free offset of every space
  hot,        \* hot_objects_: the ring's 8 entries (0 = empty)
  hotIndex,   \* hot_objects_: the ring's next write position
  weakFlag,   \* allocator()->next_reference_is_weak()
  alignment,  \* allocator: pending alignment (0 = kWordAligned)
  barriers,   \* slots a GenerationalBarrier was recorded for
  backing,    \* off_heap_backing_stores_: byte lengths, in order
  newStrings, \* new_internalized_strings_: addresses, in order
  rehash,     \* can_rehash_ (FLAG_rehash_snapshot keeps its default, on)
  garbageTypes, \* instance types a map word that was never written reads as
  toRehash,   \* to_rehash_: addresses, in order
  externalStrings, \* strings given to Heap::RegisterExternalString, in order
  rehashed,   \* the objects Rehash() has visited, in order
  rootsSeen,  \* number of VisitRootPointers calls made so far
  defRun,     \* DeserializeDeferredObjects has been entered
  pos,        \* source_.position(), counted in opcodes read
  maxOps,     \* length bound of the stream explored
  log         \* history of the steps taken (for stating properties)

vars == <<debug, userCode, apiCount, pc, stack, mem, objs, bump, hot, hotIndex,
          weakFlag, alignment, barriers, backing, newStrings, rehash,
          garbageTypes, toRehash, externalStrings, rehashed, rootsSeen, defRun, pos,
          maxOps, log>>

-----------------------------------------------------------------------------
(* Program constants *)

kPointerSize == 8
kTaggedSize == kPointerSize
kNumberOfHotObjects == 8
kNullAddress == 0

(* Bounds of the exploration: the number of opcodes read in one behaviour. *)
MaxOpsWide == 3
MaxOpsWeak == 5
MaxOpsBarrier == 5
MaxOpsRepeat == 4
MaxOpsBackref == 6
MaxOpsHot == 10
MaxOpsDeferred == 6
MaxOpsSync == 4
MaxOpsApi == 3

-----------------------------------------------------------------------------
(* Address space.  Every space owns one region; the first half of a region *)
(* holds objects that exist before decoding starts (roots, caches,         *)
(* attached objects), the second half is the reservation ReadObject bumps. *)

Spaces == {"RO", "NEW", "OLD", "CODE", "MAP", "LO"}

RegionBytes == 128 * kPointerSize

SpaceIndex(space) ==
  CASE space = "RO" -> 1 [] space = "NEW" -> 2 [] space = "OLD" -> 3
    [] space = "CODE" -> 4 [] space = "MAP" -> 5 [] space = "LO" -> 6

Base(space) == SpaceIndex(space) * RegionBytes

ReservationStart(space) == Base(space) + (RegionBytes \div 2)

SpaceOf(addr) ==
  CASE addr \div RegionBytes = 1 -> "RO"
    [] addr \div RegionBytes = 2 -> "NEW"
    [] addr \div RegionBytes = 3 -> "OLD"
    [] addr \div RegionBytes = 4 -> "CODE"
    [] addr \div RegionBytes = 5 -> "MAP"
    [] addr \div RegionBytes = 6 -> "LO"
    [] OTHER -> "NONE"

\* Heap::InYoungGeneration
InYoungGeneration(addr) == SpaceOf(addr) = "NEW"

\* Root slots visited by VisitRootPointers lie outside the heap.
RootSlotBase == 7 * RegionBytes

\* The local MaybeObject of ReadObject(), one per nesting depth.
TempSlot(depth) == 8 * RegionBytes + depth * kPointerSize

-----------------------------------------------------------------------------
(* Values a slot can hold *)

NoVal == [t |-> "none", obj |-> 0, weak |-> FALSE, len |-> 0]

\* HeapObjectReference::Strong / HeapObjectReference::Weak
Ref(obj, weak) == [t |-> "ref", obj |-> obj, weak |-> weak, len |-> kPointerSize]

RawVal(len) == [t |-> "raw", obj |-> 0, weak |-> FALSE, len |-> len]

AddrVal(kind, id) == [t |-> kind, obj |-> id, weak |-> FALSE, len |-> kPointerSize]

\* A write of v.len bytes at addr; whatever it overlaps is no longer intact.
Store(m, addr, v) ==
  LET keep == {a \in DOMAIN m : a + m[a].len <= addr \/ addr + v.len <= a}
  IN  [a \in keep \cup {addr} |-> IF a = addr THEN v ELSE m[a]]

RECURSIVE StoreMany(_, _, _, _)
StoreMany(m, addr, v, n) ==
  IF n <= 0 THEN m
  ELSE StoreMany(Store(m, addr, v), addr + kPointerSize, v, n - 1)

\* An intact reference written at addr
HasRef(m, addr) == addr \in DOMAIN m /\ m[addr].t = "ref"

-----------------------------------------------------------------------------
(* Objects that exist before decoding starts, and the tables that name them *)

PlainMap == Base("RO")
ThinStringMap == Base("RO") + kPointerSize
CodeMap == Base("RO") + 2 * kPointerSize
ReadOnlyObject == Base("RO") + 3 * kPointerSize
InternalizedStringMap == Base("RO") + 4 * kPointerSize
HashTableMap == Base("RO") + 5 * kPointerSize
ExternalStringMap == Base("RO") + 6 * kPointerSize
ExternalInternalizedStringMap == Base("RO") + 7 * kPointerSize
NativeSourceStringMap == Base("RO") + 8 * kPointerSize
OldObject == Base("OLD")
YoungRoot == Base("NEW")
YoungObject == Base("NEW") + kPointerSize

\* isolate->root(root_index): the first kNumberOfRootArrayConstants roots are
\* immortal immovable, later ones may live anywhere.
kNumberOfRootArrayConstants == 32

Root(id) ==
  CASE id = 0 -> PlainMap
    [] id = 1 -> ThinStringMap
    [] id = 2 -> CodeMap
    [] id = 3 -> InternalizedStringMap
    [] id = 4 -> HashTableMap
    [] id = 5 -> ExternalStringMap
    [] id = 6 -> ExternalInternalizedStringMap
    [] id = 7 -> NativeSourceStringMap
    [] id >= kNumberOfRootArrayConstants -> YoungRoot
    [] OTHER -> ReadOnlyObject

\* isolate->partial_snapshot_cache()->at(i)
PartialSnapshotCache(i) == IF i = 0 THEN OldObject ELSE YoungObject

\* isolate->read_only_object_cache()->at(i)
ReadOnlyObjectCache(i) == ReadOnlyObject

\* attached_objects_[i]
AttachedObject(i) == IF i = 0 THEN YoungObject ELSE OldObject

\* The internalized string the string table holds before decoding starts,
\* and the content it has; no other content is in the table.
CanonicalString == Base("OLD") + 2 * kPointerSize
CanonicalContent == 1

\* What a read of a word that holds no intact reference can yield.
GarbageObjects == {kNullAddress, YoungObject}

-----------------------------------------------------------------------------
(* Frames: the activations of ReadData *)

Top == stack[Len(stack)]

Frame(kind, cur, lim, space, host, weak, obj, rep) ==
  [kind |-> kind, cur |-> cur, lim |-> lim, space |-> space, host |-> host,
   weak |-> weak, obj |-> obj, rep |-> rep, ret |-> "run"]

NoFrame == Frame("none", 0, 0, "NONE", kNullAddress, FALSE, 0, 0)

\* The innermost activation with its cursor moved by `bytes`
Advanced(bytes) == [stack EXCEPT ![Len(stack)].cur = @ + bytes]

\* The activation that called the innermost one, or NoFrame
Caller == IF Len(stack) >= 2 THEN stack[Len(stack) - 1] ELSE NoFrame

-----------------------------------------------------------------------------
(* The history of steps *)

Ev(op, f) ==
  [op |-> op, depth |-> Len(stack), kind |-> f.kind, at |-> f.cur,
   lim |-> f.lim, host |-> f.host, space |-> f.space, wf |-> weakFlag,
   n |-> 0, val |-> NoVal, obj |-> 0, osp |-> "NONE", res |-> "ok",
   slot |-> 0, shost |-> f.host, sspace |-> f.space, hdr |-> TRUE,
   align |-> 0]

Last == IF log = <<>> THEN Ev("Init", NoFrame) ELSE log[Len(log)]

Logged(e) == log' = Append(log, e)

-----------------------------------------------------------------------------
(* Initial state: a freshly constructed deserializer *)

InitRehash(ops, builds, modes, apis, rehashes, types) ==
  /\ debug \in builds
  /\ userCode \in modes
  /\ apiCount \in apis
  /\ rehash \in rehashes
  /\ garbageTypes = types
  /\ pc = "idle"
  /\ stack = <<>>
  /\ mem = <<>>
  /\ objs = <<>>
  /\ bump = [s \in Spaces |-> 0]
  /\ hot = [i \in 0..(kNumberOfHotObjects - 1) |-> kNullAddress]
  /\ hotIndex = 0
  /\ weakFlag = FALSE
  /\ alignment = 0
  /\ barriers = {}
  /\ backing = <<>>
  /\ newStrings = <<>>
  /\ toRehash = <<>>
  /\ externalStrings = <<>>
  /\ rehashed = <<>>
  /\ rootsSeen = 0
  /\ defRun = FALSE
  /\ pos = 0
  /\ maxOps = ops
  /\ log = <<>>

\* A deserializer that was not asked to rehash, fed streams without
\* external strings
InitWith(ops, builds, modes, apis) ==
  InitRehash(ops, builds, modes, apis, {FALSE},
             {"thin", "internalized", "other"})

cfgVars == <<debug, userCode, apiCount, maxOps, rehash, garbageTypes>>
\* What PostProcessNewObject and Rehash keep besides the heap
postVars == <<newStrings, toRehash, externalStrings, rehashed>>
drvVars == <<rootsSeen, defRun>>
hotVars == <<hot, hotIndex>>
allocVars == <<objs, bump, alignment>>

\* The innermost ReadData is at the head of its loop with room left:
\* while (current < limit) { byte data = source_.Get(); ...
Reading ==
  /\ pc \in {"roots", "deferred"}
  /\ stack # <<>>
  /\ Top.ret = "run"
  /\ Top.cur < Top.lim
  /\ pos < maxOps

\* A fatal abort (CHECK, UNREACHABLE, a live DCHECK) while reading opcode e
Abort(e) ==
  /\ pc' = "aborted"
  /\ pos' = pos + 1
  /\ Logged([e EXCEPT !.res = "abort"])
  /\ UNCHANGED <<cfgVars, drvVars, hotVars, allocVars, stack, mem, weakFlag,
                 barriers, backing, postVars>>

\* A fatal abort in code that reads no byte
AbortNoRead(e) ==
  /\ pc' = "aborted"
  /\ Logged([e EXCEPT !.res = "abort"])
  /\ UNCHANGED <<cfgVars, drvVars, hotVars, allocVars, stack, mem, weakFlag,
                 barriers, backing, postVars, pos>>

WriteBarrierNeededNever(f) == FALSE

\* bool write_barrier_needed = (current_object_address != kNullAddress &&
\*     source_space != NEW_SPACE && source_space != CODE_SPACE);
WriteBarrierNeeded(f) ==
  f.host # kNullAddress /\ f.space # "NEW" /\ f.space # "CODE"

LimitCheckDropped(f) == TRUE

\* CHECK_EQ(limit, current) at the end of ReadData
LimitCheck(f) == f.cur = f.lim

\* DCHECK(!allocator()->next_reference_is_weak()) in UnalignedCopy
UnalignedCopyCheck == ~(debug /\ weakFlag)

WeakFlagKept == weakFlag

\* The value of next_reference_is_weak after GetAndClearNextReferenceIsWeak
ClearedWeakFlag == FALSE

-----------------------------------------------------------------------------
(* The driver: root visitation *)

MaxRootVisits == 1

\* Slots of the k-th root group
RootGroup(k) == RootSlotBase + k * 16 * kPointerSize

VisitRootPointers(lens) ==
  /\ pc = "idle"
  /\ rootsSeen < MaxRootVisits
  /\ \E n \in lens :
       LET f == Frame("root", RootGroup(rootsSeen),
                      RootGroup(rootsSeen) + n * kPointerSize,
                      "NEW", kNullAddress, FALSE, 0, 0)
       IN  /\ stack' = <<f>>
           /\ Logged([Ev("VisitRootPointers", f) EXCEPT !.n = n])
  /\ pc' = "roots"
  /\ rootsSeen' = rootsSeen + 1
  /\ UNCHANGED <<cfgVars, defRun, hotVars, allocVars, mem, weakFlag, barriers,
                 backing, postVars, pos>>

\* VisitRootPointers ignores the result of ReadData
ReturnRoot ==
  /\ pc = "roots"
  /\ Len(stack) = 1
  /\ Top.kind = "root"
  /\ Top.ret = "false" \/ Top.cur >= Top.lim
  /\ IF Top.ret = "run" /\ ~LimitCheck(Top)
     THEN AbortNoRead(Ev("Return", Top))
     ELSE /\ pc' = "idle"
          /\ stack' = <<>>
          /\ Logged([Ev("Return", Top) EXCEPT
                       !.res = IF Top.ret = "run" THEN "true" ELSE "false"])
          /\ UNCHANGED <<cfgVars, drvVars, hotVars, allocVars, mem, weakFlag,
                         barriers, backing, postVars, pos>>

-----------------------------------------------------------------------------
(* Opcodes that fill slots with literal bytes *)

FixedRawDataBytesUnshifted(words) == words

\* int size_in_bytes = (data - kFixedRawDataStart) << kPointerSizeLog2;
FixedRawDataBytes(words) == words * kPointerSize

FixedRawData(counts) ==
  /\ Reading
  /\ \E k \in counts :
       LET bytes == FixedRawDataBytes(k) IN
       /\ mem' = Store(mem, Top.cur, RawVal(bytes))
       /\ stack' = Advanced(bytes)
       /\ Logged([Ev("FixedRawData", Top) EXCEPT !.n = k, !.slot = Top.cur,
                                                  !.val = RawVal(bytes)])
  /\ pos' = pos + 1
  /\ pc' = pc
  /\ UNCHANGED <<cfgVars, drvVars, hotVars, allocVars, weakFlag, barriers,
                 backing, postVars>>

\* case kFixedRawData with the content of the bytes copied: every word
\* written carries the content d.content.
FixedRawDataWords(dom) ==
  /\ Reading
  /\ \E d \in dom :
       LET bytes == FixedRawDataBytes(d.words)
           v == [RawVal(kPointerSize) EXCEPT !.obj = d.content]
       IN
       /\ mem' = StoreMany(mem, Top.cur, v, d.words)
       /\ stack' = Advanced(bytes)
       /\ Logged([Ev("FixedRawData", Top) EXCEPT !.n = d.words,
                     !.slot = Top.cur, !.val = v])
  /\ pos' = pos + 1
  /\ pc' = pc
  /\ UNCHANGED <<cfgVars, drvVars, hotVars, allocVars, weakFlag, barriers,
                 backing, postVars>>

VariableRawData(sizes) ==
  /\ Reading
  /\ \E bytes \in sizes :
       /\ mem' = IF bytes > 0 THEN Store(mem, Top.cur, RawVal(bytes)) ELSE mem
       /\ stack' = Advanced(bytes)
       /\ Logged([Ev("VariableRawData", Top) EXCEPT !.n = bytes,
                     !.slot = Top.cur, !.val = RawVal(bytes)])
  /\ pos' = pos + 1
  /\ pc' = pc
  /\ UNCHANGED <<cfgVars, drvVars, hotVars, allocVars, weakFlag, barriers,
                 backing, postVars>>

-----------------------------------------------------------------------------
(* Allocator and back-reference resolution *)

\* allocator()->Allocate(space, size): bump allocation in the reservation
AllocateAddress(space) == ReservationStart(space) + bump[space]

ChunkBytes == 16 * kPointerSize

\* allocator()->MoveToNextChunk(space)
NextChunkOffset(offset) == ((offset \div ChunkBytes) + 1) * ChunkBytes

ObjsIn(space) == SelectSeq(objs, LAMBDA o : o.space = space)

\* allocator()->GetObject / GetMap / GetLargeObject
Materialized(space, idx) == idx < Len(ObjsIn(space))
ResolveBackref(space, idx) == ObjsIn(space)[idx + 1].addr

\* ThinString::kActualOffset
kActualOffset == 2 * kPointerSize

\* obj->IsThinString(): decided by the map word of obj; a map word that holds
\* no intact reference yields an arbitrary answer.
IsThinStringOutcomes(a) ==
  IF HasRef(mem, a) THEN {mem[a].obj = ThinStringMap} ELSE BOOLEAN

\* ThinString::cast(obj)->actual()
ActualOutcomes(a) ==
  IF HasRef(mem, a + kActualOffset) THEN {mem[a + kActualOffset].obj}
  ELSE GarbageObjects

\* The instance type the map word of obj gives; a map word that holds no
\* intact reference yields any of garbageTypes.
InstanceTypeOutcomes(a) ==
  IF HasRef(mem, a)
  THEN {CASE mem[a].obj = ThinStringMap -> "thin"
          [] mem[a].obj = InternalizedStringMap -> "internalized"
          [] mem[a].obj = HashTableMap -> "hashed"
          [] mem[a].obj = ExternalStringMap -> "external"
          [] mem[a].obj = ExternalInternalizedStringMap ->
               "externalInternalized"
          [] mem[a].obj = NativeSourceStringMap -> "native"
          [] OTHER -> "other"}
  ELSE garbageTypes

\* The instance types of obj->IsString(), of IsInternalizedString() and of
\* IsExternalString(); "hashed" is the type of obj->NeedsRehashing()
StringTypes ==
  {"thin", "internalized", "external", "externalInternalized", "native"}
InternalizedTypes == {"internalized", "externalInternalized"}
ExternalTypes == {"external", "externalInternalized", "native"}

\* obj->IsString()
IsStringOutcomes(a) == {(t \in StringTypes) : t \in InstanceTypeOutcomes(a)}

\* obj->IsCode()
IsCodeOutcomes(a) ==
  IF a = CanonicalString THEN {FALSE}
  ELSE IF HasRef(mem, a) THEN {mem[a].obj = CodeMap} ELSE BOOLEAN

BackRefResultWrapper(resolved, thin, actual) == resolved

\* GetBackReferencedObject, lines 362-364
BackRefResult(resolved, thin, actual) ==
  IF userCode /\ thin THEN actual ELSE resolved

\* hot_objects_.Add(obj)
HotAdded(obj) == [hot EXCEPT ![hotIndex] = obj]
HotNext == (hotIndex + 1) % kNumberOfHotObjects

\* hot_objects_.Get(index): a debug build asserts that the entry is in use
HotGetCheck(obj) == ~(debug /\ obj = kNullAddress)

\* GetBackReferencedObject, line 366: what the call pushes
BackRefPushed(result) == HotAdded(result)

MarkPost(os, addr) ==
  [i \in DOMAIN os |->
     IF os[i].addr = addr
     THEN [os[i] EXCEPT !.post = TRUE, !.st = "filled", !.posts = @ + 1]
     ELSE os[i]]

MarkDeferred(os, addr) ==
  [i \in DOMAIN os |->
     IF os[i].addr = addr THEN [os[i] EXCEPT !.st = "deferred"] ELSE os[i]]

\* String::kHashFieldOffset and the first character of a sequential string
kHashFieldOffset == kPointerSize
kCharsOffset == 2 * kPointerSize

\* String::kEmptyHashField, a 32-bit field
EmptyHashField == [t |-> "hash", obj |-> 0, weak |-> FALSE, len |-> 4]

\* The characters of a string: a word copied from the stream carries its
\* content, any other word reads as some content.
StringContents == {1, 2}

ContentOutcomes(m, a) ==
  IF (a + kCharsOffset) \in DOMAIN m /\ m[a + kCharsOffset].t = "raw"
  THEN {m[a + kCharsOffset].obj}
  ELSE StringContents

\* The string table's entry equal to a key, or null
StringTableLookup(content) ==
  IF content = CanonicalContent THEN CanonicalString ELSE kNullAddress

\* String::MakeThin: the duplicate becomes a thin string naming `canonical`
MakeThin(m, a, canonical) ==
  Store(Store(m, a, Ref(ThinStringMap, FALSE)), a + kActualOffset,
        Ref(canonical, FALSE))

\* ExternalString::kResourceOffset
kResourceOffset == 2 * kPointerSize

\* The indices explored for a resource word that was not copied from the
\* stream
ResourceIndices == {0, 1}

\* string->resource_as_uint32()
ResourceOutcomes(m, a) ==
  IF (a + kResourceOffset) \in DOMAIN m /\ m[a + kResourceOffset].t = "raw"
  THEN {m[a + kResourceOffset].obj}
  ELSE ResourceIndices

\* What a post-processing has made so far: the object that stands for obj,
\* the memory, new_internalized_strings_, to_rehash_, the strings given to
\* RegisterExternalString, and whether the process died in it
PostState(obj, m) ==
  [obj |-> obj, mem |-> m, strings |-> newStrings, rehash |-> toRehash,
   external |-> externalStrings, crash |-> FALSE]

\* Lines 200-208 without the push of line 206
HashResetOnly(p, t) ==
  IF (rehash \/ userCode) /\ t \in StringTypes
  THEN [p EXCEPT !.mem = Store(@, p.obj + kHashFieldOffset, EmptyHashField)]
  ELSE p

\* Lines 200-208: strings lose their hash, hash-dependent objects are queued
HashReset(p, t) ==
  IF ~(rehash \/ userCode) THEN p
  ELSE IF t \in StringTypes
  THEN [p EXCEPT !.mem = Store(@, p.obj + kHashFieldOffset, EmptyHashField)]
  ELSE IF t = "hashed" THEN [p EXCEPT !.rehash = Append(@, p.obj)]
  ELSE p

\* What PostProcessNewObject does to a string of content c, lines 213-222
Canonicalized(p, c) ==
  LET canonical == StringTableLookup(c) IN
  IF canonical # kNullAddress
  THEN [p EXCEPT !.obj = canonical, !.mem = MakeThin(@, p.obj, canonical)]
  ELSE [p EXCEPT !.strings = Append(@, p.obj)]

\* Lines 213-222 for a string of type t.  The key of an external string is
\* hashed through its resource, which still is the placeholder index: the
\* read yields any content or ends the process.
Internalized(p, t) ==
  IF t = "externalInternalized"
  THEN {[p EXCEPT !.crash = TRUE]}
         \cup {Canonicalized(p, c) : c \in StringContents}
  ELSE {Canonicalized(p, c) : c \in ContentOutcomes(p.mem, p.obj)}

\* NativesExternalStringResource::DecodeForDeserialization
DecodeForDeserialization(index) == AddrVal("native", index)

\* heap()->RegisterExternalString(string) after the resource word is set
Registered(p, resource) ==
  [p EXCEPT !.mem = Store(@, p.obj + kResourceOffset, resource),
            !.external = Append(@, p.obj)]

\* Lines 258-274.  api_external_references()[index] is read unchecked: an
\* index the table does not have yields any word or ends the process.
ExternalStringFixed(p, t) ==
  IF t \notin ExternalTypes THEN {p}
  ELSE UNION {
         IF t = "native"
         THEN {Registered(p, DecodeForDeserialization(i))}
         ELSE IF 0 <= i /\ i < apiCount
         THEN {Registered(p, AddrVal("api", i))}
         ELSE {[p EXCEPT !.crash = TRUE],
               Registered(p, AddrVal("garbage", i))}
         : i \in ResourceOutcomes(p.mem, p.obj)}

\* PostProcessNewObject's returns without the look-up of lines 213-220
PostProcessNoLookup(obj, space) ==
  UNION {
    LET p == HashReset(PostState(obj, mem), t) IN
    IF userCode /\ t \in InternalizedTypes
    THEN {[p EXCEPT !.strings = Append(@, obj)]}
    ELSE ExternalStringFixed(p, t)
    : t \in InstanceTypeOutcomes(obj)}

\* PostProcessNewObject, lines 199-274: every state it can leave.  Scripts,
\* allocation sites, code lists, typed arrays and array buffers (lines
\* 223-256, 275-322) are not modelled.
PostProcessNewObject(obj, space) ==
  UNION {
    LET p == HashReset(PostState(obj, mem), t) IN
    IF userCode /\ t \in InternalizedTypes
    THEN Internalized(p, t)
    ELSE ExternalStringFixed(p, t)
    : t \in InstanceTypeOutcomes(obj)}

-----------------------------------------------------------------------------
(* New objects: ReadDataCase<kNewObject> and ReadObject(int) *)

\* allocator()->Allocate with the alignment left pending
NextAlignmentKept(a) == a

\* allocator()->Allocate: the pending alignment serves this allocation and
\* is word alignment again afterwards
NextAlignmentAfter(a) == 0

NewObject(dom) ==
  /\ Reading
  /\ \E d \in dom :
       LET size == d.size * kPointerSize
           addr == AllocateAddress(d.space)
           f == Frame("newobj", addr, addr + size, d.space, addr, weakFlag,
                      addr, 0)
       IN  /\ objs' = Append(objs, [addr |-> addr, space |-> d.space,
                                    size |-> size, st |-> "filling",
                                    post |-> FALSE, posts |-> 0])
           /\ bump' = [bump EXCEPT ![d.space] = @ + size]
           /\ stack' = Append(stack, f)
           /\ Logged([Ev("NewObject", Top) EXCEPT !.n = d.size, !.obj = addr,
                                                   !.osp = d.space,
                                                   !.align = alignment])
  /\ alignment' = NextAlignmentAfter(alignment)
  /\ weakFlag' = ClearedWeakFlag
  /\ pos' = pos + 1
  /\ pc' = pc
  /\ UNCHANGED <<cfgVars, drvVars, hotVars, mem, barriers, backing, postVars>>

\* emit_write_barrier of ReadDataCase<kNewObject> and <kBackref>
EmitForSpace(space) == space = "NEW"

PostProcessAlways(filled) == TRUE

\* ReadObject(int), lines 392-395: only post process if object content has
\* not been deferred
PostProcessWanted(filled) == filled

\* ReadObject(int) returning the object it allocated, whatever the
\* post-processing returned
ReadObjectResultStale(pp, f) == f.obj

\* obj = PostProcessNewObject(obj, space_number); return obj
ReadObjectResult(pp, f) == pp.obj

\* The rest of ReadObject(int) and of ReadDataCase after the body's ReadData
ReturnNewObject ==
  /\ pc \in {"roots", "deferred"}
  /\ Len(stack) >= 2
  /\ Top.kind = "newobj"
  /\ Top.ret = "false" \/ Top.cur >= Top.lim
  /\ LET f == Top
         c == Caller
         filled == f.ret = "run"
     IN  \E pp \in (IF PostProcessWanted(filled) /\ (~filled \/ LimitCheck(f))
                    THEN PostProcessNewObject(f.obj, f.space)
                    ELSE {PostState(f.obj, mem)}) :
         LET obj == ReadObjectResult(pp, f)
             v == Ref(obj, f.weak)
             e == [Ev("NewObjectDone", f) EXCEPT
                     !.res = IF filled THEN "true" ELSE "false", !.obj = obj,
                     !.val = v, !.osp = f.space, !.slot = c.cur,
                     !.shost = c.host, !.sspace = c.space]
         IN
         IF (filled /\ ~LimitCheck(f)) \/ pp.crash
         THEN AbortNoRead(e)
         ELSE \E isCode \in (IF debug THEN IsCodeOutcomes(obj) ELSE {FALSE}) :
                IF (debug /\ (isCode # (f.space = "CODE")))
                   \/ ~UnalignedCopyCheck
                THEN AbortNoRead(e)
                ELSE /\ objs' = IF PostProcessWanted(filled)
                                THEN MarkPost(objs, f.obj)
                                ELSE MarkDeferred(objs, f.obj)
                     /\ mem' = Store(pp.mem, c.cur, v)
                     /\ newStrings' = pp.strings
                     /\ toRehash' = pp.rehash
                     /\ externalStrings' = pp.external
                     /\ barriers' =
                          IF EmitForSpace(f.space) /\ WriteBarrierNeeded(c)
                          THEN barriers \cup {c.cur} ELSE barriers
                     /\ stack' = [SubSeq(stack, 1, Len(stack) - 1) EXCEPT
                                    ![Len(stack) - 1].cur = @ + kPointerSize]
                     /\ Logged(e)
                     /\ pc' = pc
                     /\ UNCHANGED <<cfgVars, drvVars, hotVars, bump, alignment,
                                    weakFlag, backing, rehashed, pos>>

-----------------------------------------------------------------------------
(* References to existing objects: the other ReadDataCase instances *)

\* The common tail of ReadDataCase, lines 845-857
RefCase(e, obj, emit, newHot, newIndex) ==
  LET v == Ref(obj, weakFlag) IN
  /\ mem' = Store(mem, Top.cur, v)
  /\ weakFlag' = ClearedWeakFlag
  /\ barriers' = IF emit /\ WriteBarrierNeeded(Top)
                 THEN barriers \cup {Top.cur} ELSE barriers
  /\ stack' = Advanced(kPointerSize)
  /\ hot' = newHot
  /\ hotIndex' = newIndex
  /\ Logged([e EXCEPT !.val = v, !.slot = Top.cur])
  /\ pos' = pos + 1
  /\ pc' = pc
  /\ UNCHANGED <<cfgVars, drvVars, allocVars, backing, postVars>>

\* ReadDataCase<kBackref>.  The allocator rejects an index that names no
\* object allocated so far.
Backref(dom) ==
  /\ Reading
  /\ \E d \in dom :
       LET e == [Ev("Backref", Top) EXCEPT !.n = d.idx, !.osp = d.space] IN
       IF ~Materialized(d.space, d.idx)
       THEN Abort(e)
       ELSE LET resolved == ResolveBackref(d.space, d.idx) IN
            \E thin \in (IF userCode THEN IsThinStringOutcomes(resolved)
                         ELSE {FALSE}) :
            \E actual \in (IF userCode /\ thin THEN ActualOutcomes(resolved)
                           ELSE {kNullAddress}) :
              LET result == BackRefResult(resolved, thin, actual) IN
              RefCase([e EXCEPT !.obj = resolved,
                                !.hdr = HasRef(mem, resolved)], result,
                      EmitForSpace(d.space), BackRefPushed(result), HotNext)

\* kRootArray without line 827
RootArrayNoPush(ids) ==
  /\ Reading
  /\ \E id \in ids :
       RefCase([Ev("RootArray", Top) EXCEPT !.n = id, !.obj = Root(id)],
               Root(id), InYoungGeneration(Root(id)), hot, hotIndex)

RootArray(ids) ==
  /\ Reading
  /\ \E id \in ids :
       RefCase([Ev("RootArray", Top) EXCEPT !.n = id, !.obj = Root(id)],
               Root(id), InYoungGeneration(Root(id)), HotAdded(Root(id)),
               HotNext)

PartialSnapshotCacheRef(ids) ==
  /\ Reading
  /\ \E i \in ids :
       LET obj == PartialSnapshotCache(i) IN
       RefCase([Ev("PartialSnapshotCache", Top) EXCEPT !.n = i, !.obj = obj],
               obj, InYoungGeneration(obj), hot, hotIndex)

ReadOnlyObjectCacheRef(ids) ==
  /\ Reading
  /\ \E i \in ids :
       LET obj == ReadOnlyObjectCache(i)
           e == [Ev("ReadOnlyObjectCache", Top) EXCEPT !.n = i, !.obj = obj]
       IN  IF debug /\ InYoungGeneration(obj)
           THEN Abort(e)
           ELSE RefCase(e, obj, FALSE, hot, hotIndex)

AttachedReference(ids) ==
  /\ Reading
  /\ \E i \in ids :
       LET obj == AttachedObject(i) IN
       RefCase([Ev("AttachedReference", Top) EXCEPT !.n = i, !.obj = obj],
               obj, InYoungGeneration(obj), hot, hotIndex)

\* case kHotObject ... kHotObject + 7
HotObject(idxs) ==
  /\ Reading
  /\ \E index \in idxs :
       LET obj == hot[index]
           e == [Ev("HotObject", Top) EXCEPT !.n = index, !.obj = obj]
       IN  IF ~HotGetCheck(obj)
           THEN Abort(e)
           ELSE RefCase(e, obj, InYoungGeneration(obj), hot, hotIndex)

-----------------------------------------------------------------------------
(* Slots written through UnalignedCopy *)

\* UnalignedCopy(current, value); current.Advance();
CopyCase(e, v) ==
  IF ~UnalignedCopyCheck
  THEN Abort(e)
  ELSE /\ mem' = Store(mem, Top.cur, v)
       /\ stack' = Advanced(kPointerSize)
       /\ Logged([e EXCEPT !.val = v, !.slot = Top.cur])
       /\ pos' = pos + 1
       /\ pc' = pc
       /\ UNCHANGED <<cfgVars, drvVars, hotVars, allocVars, weakFlag,
                      barriers, backing, postVars>>

ExternalReference(ids) ==
  /\ Reading
  /\ \E id \in ids :
       CopyCase([Ev("ExternalReference", Top) EXCEPT !.n = id],
                AddrVal("ext", id))

\* case kApiReference.  The bound on reference_id is a DCHECK; without it
\* the read past the embedder's table is undefined: the process crashes or
\* the read yields some word.
ApiReference(ids) ==
  /\ Reading
  /\ \E id \in ids :
       LET e == [Ev("ApiReference", Top) EXCEPT !.n = id] IN
       IF apiCount >= 0
       THEN IF id < apiCount
            THEN CopyCase(e, AddrVal("api", id))
            ELSE IF debug THEN Abort(e)
                 ELSE \E crash \in BOOLEAN :
                        IF crash
                        THEN Abort([e EXCEPT !.val = AddrVal("crash", 0)])
                        ELSE CopyCase(e, AddrVal("garbage", id))
       ELSE CopyCase(e, AddrVal("NoExternalReferencesCallback", 0))

ClearedWeakReference ==
  /\ Reading
  /\ CopyCase(Ev("ClearedWeakReference", Top), AddrVal("cleared", 0))

\* case kRootArrayConstants ... kRootArrayConstants + 31
RootArrayConstant(ids) ==
  /\ Reading
  /\ \E id \in ids :
       LET e == [Ev("RootArrayConstant", Top) EXCEPT !.n = id,
                                                     !.obj = Root(id)]
       IN  IF debug /\ InYoungGeneration(Root(id))
           THEN Abort(e)
           ELSE CopyCase(e, Ref(Root(id), FALSE))

-----------------------------------------------------------------------------
(* Opcodes that write no slot *)

\* The loop of ReadData goes on; the cursor stays where it is
NoSlot(e) ==
  /\ Logged(e)
  /\ pos' = pos + 1
  /\ pc' = pc
  /\ stack' = stack

Nop ==
  /\ Reading
  /\ NoSlot(Ev("Nop", Top))
  /\ UNCHANGED <<cfgVars, drvVars, hotVars, allocVars, mem, weakFlag,
                 barriers, backing, postVars>>

NextChunk(spaces) ==
  /\ Reading
  /\ \E space \in spaces :
       /\ bump' = [bump EXCEPT ![space] = NextChunkOffset(@)]
       /\ NoSlot([Ev("NextChunk", Top) EXCEPT !.osp = space])
  /\ UNCHANGED <<cfgVars, drvVars, hotVars, objs, alignment, mem, weakFlag,
                 barriers, backing, postVars>>

WeakPrefix ==
  /\ Reading
  /\ IF debug /\ weakFlag
     THEN Abort(Ev("WeakPrefix", Top))
     ELSE /\ weakFlag' = TRUE
          /\ NoSlot(Ev("WeakPrefix", Top))
          /\ UNCHANGED <<cfgVars, drvVars, hotVars, allocVars, mem, barriers,
                         backing, postVars>>

\* int alignment = data - (kAlignmentPrefix - 1), data = kAlignmentPrefix + k
AlignmentOf(k) == k + 1

AlignmentPrefix(ks) ==
  /\ Reading
  /\ \E k \in ks :
       /\ alignment' = AlignmentOf(k)
       /\ NoSlot([Ev("AlignmentPrefix", Top) EXCEPT !.n = k])
  /\ UNCHANGED <<cfgVars, drvVars, hotVars, objs, bump, mem, weakFlag,
                 barriers, backing, postVars>>

\* case kOffHeapBackingStore; the host allocator may fail
OffHeapBackingStore(lens) ==
  /\ Reading
  /\ \E len \in lens, allocated \in BOOLEAN :
       LET e == [Ev("OffHeapBackingStore", Top) EXCEPT !.n = len] IN
       IF ~allocated
       THEN Abort(e)
       ELSE /\ backing' = Append(backing, len)
            /\ UNCHANGED postVars
            /\ NoSlot(e)
            /\ UNCHANGED <<cfgVars, drvVars, hotVars, allocVars, mem,
                           weakFlag, barriers>>

SynchronizeInSpanSkipped ==
  /\ Reading
  /\ NoSlot(Ev("Synchronize", Top))
  /\ UNCHANGED <<cfgVars, drvVars, hotVars, allocVars, mem, weakFlag,
                 barriers, backing, postVars>>

\* case kSynchronize: UNREACHABLE()
SynchronizeInSpan ==
  /\ Reading
  /\ Abort(Ev("Synchronize", Top))

\* case kInternalReferenceEncoded, kInternalReference, kOffHeapTarget
RelocOnlyOpcode ==
  /\ Reading
  /\ \E op \in {"InternalReferenceEncoded", "InternalReference",
                "OffHeapTarget"} : Abort(Ev(op, Top))

\* A byte of UNUSED_SERIALIZER_BYTE_CODES: a case only under DEBUG; without
\* it the switch has no matching label and the loop goes on.
UnusedOpcode ==
  /\ Reading
  /\ IF debug
     THEN Abort(Ev("Unused", Top))
     ELSE /\ NoSlot(Ev("Unused", Top))
          /\ UNCHANGED <<cfgVars, drvVars, hotVars, allocVars, mem, weakFlag,
                         barriers, backing, postVars>>

\* DCHECK_EQ(current.address(), current_object_address + kTaggedSize)
DeferredPositionCheck(f) == ~debug \/ f.cur = f.host + kTaggedSize

\* case kDeferred.  HeapObject::FromAddress(current_object_address)->IsMap()
\* dereferences the host; with a null host that read is undefined: the
\* process crashes or the read yields something and ReadData returns false.
Deferred ==
  /\ Reading
  /\ LET e == Ev("Deferred", Top) IN
     IF ~DeferredPositionCheck(Top)
     THEN Abort(e)
     ELSE \E crash \in (IF Top.host = kNullAddress THEN BOOLEAN ELSE {FALSE}) :
            IF crash
            THEN Abort([e EXCEPT !.val = AddrVal("crash", 0)])
            ELSE /\ stack' = [stack EXCEPT ![Len(stack)].cur = Top.lim,
                                           ![Len(stack)].ret = "false"]
                 /\ Logged(e)
                 /\ pos' = pos + 1
                 /\ pc' = pc
                 /\ UNCHANGED <<cfgVars, drvVars, hotVars, allocVars, mem,
                                weakFlag, barriers, backing, postVars>>

-----------------------------------------------------------------------------
(* Repeats: ReadRepeatedObject and ReadObject() *)

\* CHECK_LE(2, repeat_count)
RepeatCountCheck(n) == 2 <= n

\* ReadRepeatedObject up to the ReadData call inside ReadObject()
RepeatStart(op, n) ==
  LET e == [Ev(op, Top) EXCEPT !.n = n]
      temp == TempSlot(Len(stack))
  IN  IF ~RepeatCountCheck(n)
      THEN Abort(e)
      ELSE /\ stack' = Append(stack, Frame("readobj", temp,
                                           temp + kPointerSize, "NEW",
                                           kNullAddress, FALSE, 0, n))
           /\ Logged(e)
           /\ pos' = pos + 1
           /\ pc' = pc
           /\ UNCHANGED <<cfgVars, drvVars, hotVars, allocVars, mem, weakFlag,
                          barriers, backing, postVars>>

\* case kVariableRepeat: the count is an explicit operand
VariableRepeat(counts) ==
  /\ Reading
  /\ \E n \in counts : RepeatStart("VariableRepeat", n)

\* case kFixedRepeat ... kFixedRepeat + 15: the count is part of the opcode
FixedRepeat(counts) ==
  /\ Reading
  /\ \E n \in counts : RepeatStart("FixedRepeat", n)

\* object.GetHeapObjectAssumeStrong(), then object.ptr()
StrongOf(v) ==
  IF v.t = "ref" THEN Ref(v.obj, FALSE)
  ELSE IF v.t = "raw" THEN RawVal(kPointerSize) ELSE v

RepeatedSlotsShort(m, cur, v, n) == StoreMany(m, cur, v, n - 1)

\* The loop of ReadRepeatedObject, lines 507-512
RepeatedSlots(m, cur, v, n) == StoreMany(m, cur, v, n)

\* The rest of ReadObject() and of ReadRepeatedObject
ReturnRepeat ==
  /\ pc \in {"roots", "deferred"}
  /\ Len(stack) >= 2
  /\ Top.kind = "readobj"
  /\ Top.ret = "false" \/ Top.cur >= Top.lim
  /\ LET f == Top
         c == Caller
         temp == f.lim - kPointerSize
         v == IF temp \in DOMAIN mem THEN StrongOf(mem[temp]) ELSE NoVal
         e == [Ev("RepeatDone", f) EXCEPT
                 !.res = IF f.ret = "run" THEN "true" ELSE "false",
                 !.n = f.rep, !.val = v, !.obj = v.obj, !.slot = c.cur,
                 !.shost = c.host, !.sspace = c.space]
     IN  IF f.ret = "false" \/ ~LimitCheck(f)
         THEN AbortNoRead(e)
         ELSE IF debug /\ ((v.t = "ref" /\ InYoungGeneration(v.obj))
                           \/ weakFlag)
              THEN AbortNoRead(e)
              ELSE /\ mem' = RepeatedSlots(mem, c.cur, v, f.rep)
                   /\ stack' = [SubSeq(stack, 1, Len(stack) - 1) EXCEPT
                                  ![Len(stack) - 1].cur =
                                      @ + f.rep * kPointerSize]
                   /\ Logged(e)
                   /\ pc' = pc
                   /\ UNCHANGED <<cfgVars, drvVars, hotVars, allocVars,
                                  weakFlag, barriers, backing, postVars, pos>>

-----------------------------------------------------------------------------
(* Code objects: kVariableRawCode, ReadCodeObjectBody and the relocation   *)
(* visitors                                                                *)

\* HeapObject::kHeaderSize, and Code::kDataStart scaled to a code header of
\* two fields behind the map
kHeaderSize == kTaggedSize
kDataStart == 3 * kPointerSize

\* DCHECK_EQ(current.address(), current_object_address + kTaggedSize)
VariableRawCodePositionCheck(f) == ~debug \/ f.cur = f.host + kTaggedSize

\* case kVariableRawCode up to the ReadData call of ReadCodeObjectBody.
\* With a null host the copy targets no object: the process crashes or the
\* bytes land somewhere and decoding goes on.
VariableRawCode(sizes) ==
  /\ Reading
  /\ \E size \in sizes :
       LET e == [Ev("VariableRawCode", Top) EXCEPT !.n = size]
           f == Frame("codebody", Top.host + kHeaderSize,
                      Top.host + kDataStart, Top.space, Top.host, FALSE,
                      Top.host, size)
       IN
       IF ~VariableRawCodePositionCheck(Top)
       THEN Abort(e)
       ELSE \E crash \in (IF Top.host = kNullAddress THEN BOOLEAN
                          ELSE {FALSE}) :
              IF crash
              THEN Abort([e EXCEPT !.val = AddrVal("crash", 0)])
              ELSE /\ mem' = IF size > 0
                             THEN Store(mem, Top.host + kDataStart,
                                        RawVal(size))
                             ELSE mem
                   /\ stack' = Append(stack, f)
                   /\ Logged(e)
                   /\ pos' = pos + 1
                   /\ pc' = pc
                   /\ UNCHANGED <<cfgVars, drvVars, hotVars, allocVars,
                                  weakFlag, barriers, backing, postVars>>

\* ReadCodeObjectBody after its ReadData call: CHECK(filled), then the
\* iteration over the relocation records starts.
ReturnCodeBody ==
  /\ pc \in {"roots", "deferred"}
  /\ Len(stack) >= 2
  /\ Top.kind = "codebody"
  /\ Top.ret = "false" \/ (Top.ret = "run" /\ Top.cur >= Top.lim)
  /\ LET f == Top
         e == [Ev("CodeBodyDone", f) EXCEPT
                 !.res = IF f.ret = "run" THEN "true" ELSE "false",
                 !.n = f.rep, !.obj = f.host]
     IN  IF f.ret = "false" \/ ~LimitCheck(f)
         THEN AbortNoRead(e)
         ELSE /\ stack' = [stack EXCEPT ![Len(stack)].kind = "reloc",
                                        ![Len(stack)].ret = "reloc"]
              /\ Logged(e)
              /\ pc' = pc
              /\ UNCHANGED <<cfgVars, drvVars, hotVars, allocVars, mem,
                             weakFlag, barriers, backing, postVars, pos>>

\* The loop of ReadCodeObjectBody is at a relocation record
AtReloc ==
  /\ pc \in {"roots", "deferred"}
  /\ stack # <<>>
  /\ Top.kind = "reloc"
  /\ pos < maxOps

\* A visitor that wrote its target: the loop goes on
RelocVisited(e) ==
  /\ Logged(e)
  /\ pos' = pos + 1
  /\ pc' = pc
  /\ UNCHANGED <<cfgVars, drvVars, hotVars, allocVars, stack, mem, weakFlag,
                 barriers, backing, postVars>>

\* VisitRuntimeEntry: UNREACHABLE()
VisitRuntimeEntry ==
  /\ AtReloc
  /\ AbortNoRead([Ev("VisitRuntimeEntry", Top) EXCEPT !.obj = Top.host])

ExternalLeadingByteAny(data) == TRUE

\* VisitExternalReference: CHECK_EQ(data, kExternalReference)
ExternalLeadingByteCheck(data) == data = "ExternalReference"

VisitExternalReference(bytes, ids) ==
  /\ AtReloc
  /\ \E data \in bytes, id \in ids :
       LET e == [Ev("VisitExternalReference", Top) EXCEPT
                   !.osp = data, !.n = id, !.obj = Top.host]
       IN  IF ~ExternalLeadingByteCheck(data)
           THEN Abort(e)
           ELSE RelocVisited([e EXCEPT !.val = AddrVal("ext", id)])

\* VisitInternalReference:
\* CHECK(data == kInternalReference || data == kInternalReferenceEncoded)
InternalLeadingByteCheck(data) ==
  data \in {"InternalReference", "InternalReferenceEncoded"}

\* inRange: the offsets read lie in the instructions and agree with the
\* record (three DCHECKs); without them a target outside the object is
\* patched: the process crashes or goes on.
VisitInternalReference(bytes) ==
  /\ AtReloc
  /\ \E data \in bytes, inRange \in BOOLEAN :
       LET e == [Ev("VisitInternalReference", Top) EXCEPT
                   !.osp = data, !.obj = Top.host]
       IN  IF ~InternalLeadingByteCheck(data) \/ (debug /\ ~inRange)
           THEN Abort(e)
           ELSE \E crash \in (IF inRange THEN {FALSE} ELSE BOOLEAN) :
                  IF crash
                  THEN Abort([e EXCEPT !.val = AddrVal("crash", 0)])
                  ELSE RelocVisited([e EXCEPT !.val = AddrVal("internal", 0)])

\* VisitOffHeapTarget: CHECK_EQ(data, kOffHeapTarget)
OffHeapLeadingByteCheck(data) == data = "OffHeapTarget"

\* blob: isolate_->embedded_blob() is set and holds the builtin
\* (CHECK_NOT_NULL, CHECK_NE)
VisitOffHeapTarget(bytes) ==
  /\ AtReloc
  /\ \E data \in bytes, blob \in BOOLEAN :
       LET e == [Ev("VisitOffHeapTarget", Top) EXCEPT
                   !.osp = data, !.obj = Top.host]
       IN  IF ~OffHeapLeadingByteCheck(data) \/ ~blob
           THEN Abort(e)
           ELSE RelocVisited([e EXCEPT !.val = AddrVal("offheap", 0)])

\* VisitCodeTarget and VisitEmbeddedPointer up to the ReadData call of
\* ReadObject()
VisitPointer(modes) ==
  /\ AtReloc
  /\ \E mode \in modes :
       LET temp == TempSlot(Len(stack)) IN
       /\ stack' = Append(stack, Frame("relocobj", temp, temp + kPointerSize,
                                       "NEW", kNullAddress, FALSE, Top.host,
                                       0))
       /\ Logged([Ev("VisitPointer", Top) EXCEPT !.osp = mode,
                                                 !.obj = Top.host])
  /\ pc' = pc
  /\ UNCHANGED <<cfgVars, drvVars, hotVars, allocVars, mem, weakFlag,
                 barriers, backing, postVars, pos>>

\* The rest of ReadObject() and of the visitor: CHECK(filled)
ReturnVisitPointer ==
  /\ pc \in {"roots", "deferred"}
  /\ Len(stack) >= 2
  /\ Top.kind = "relocobj"
  /\ Top.ret = "false" \/ Top.cur >= Top.lim
  /\ LET f == Top
         temp == f.lim - kPointerSize
         v == IF temp \in DOMAIN mem THEN StrongOf(mem[temp]) ELSE NoVal
         e == [Ev("VisitPointerDone", f) EXCEPT
                 !.res = IF f.ret = "run" THEN "true" ELSE "false",
                 !.val = v, !.obj = f.obj]
     IN  IF f.ret = "false" \/ ~LimitCheck(f)
         THEN AbortNoRead(e)
         ELSE /\ stack' = SubSeq(stack, 1, Len(stack) - 1)
              /\ Logged(e)
              /\ pc' = pc
              /\ UNCHANGED <<cfgVars, drvVars, hotVars, allocVars, mem,
                             weakFlag, barriers, backing, postVars, pos>>

\* current.Advance(Code::kDataStart - HeapObject::kHeaderSize + size_in_bytes)
CodeEnd(cur, size) == cur + (kDataStart - kHeaderSize) + size

\* CHECK_EQ(current, limit) of case kVariableRawCode
CodeEndCheck(cur, lim) == cur = lim

\* The relocation iterator is done: the rest of case kVariableRawCode
VariableRawCodeDone ==
  /\ pc \in {"roots", "deferred"}
  /\ Len(stack) >= 2
  /\ Top.kind = "reloc"
  /\ LET f == Top
         c == Caller
         end == CodeEnd(c.cur, f.rep)
         e == [Ev("VariableRawCodeDone", c) EXCEPT !.n = f.rep,
                                                   !.slot = end,
                                                   !.obj = f.host]
     IN  IF ~CodeEndCheck(end, c.lim)
         THEN AbortNoRead(e)
         ELSE /\ stack' = [SubSeq(stack, 1, Len(stack) - 1) EXCEPT
                             ![Len(stack) - 1].cur = end]
              /\ Logged(e)
              /\ pc' = pc
              /\ UNCHANGED <<cfgVars, drvVars, hotVars, allocVars, mem,
                             weakFlag, barriers, backing, postVars, pos>>

-----------------------------------------------------------------------------
(* The driver: Synchronize, the deferred pass, the destructor *)

\* Deserializer::Synchronize: CHECK_EQ(kSynchronize, source_.Get())
Synchronize(bytes) ==
  /\ pc = "idle"
  /\ pos < maxOps
  /\ \E b \in bytes :
       IF b # "Synchronize"
       THEN Abort([Ev("DriverSynchronize", NoFrame) EXCEPT !.osp = b])
       ELSE /\ Logged(Ev("DriverSynchronize", NoFrame))
            /\ pos' = pos + 1
            /\ pc' = pc
            /\ UNCHANGED <<cfgVars, drvVars, hotVars, allocVars, stack, mem,
                           weakFlag, barriers, backing, postVars>>

DeserializeDeferredObjects ==
  /\ pc = "idle"
  /\ ~defRun
  /\ pc' = "deferred"
  /\ defRun' = TRUE
  /\ Logged(Ev("DeserializeDeferredObjects", NoFrame))
  /\ UNCHANGED <<cfgVars, rootsSeen, hotVars, allocVars, stack, mem, weakFlag,
                 barriers, backing, postVars, pos>>

\* The deferred pass is at the head of its loop
DeferredLoop == pc = "deferred" /\ stack = <<>> /\ pos < maxOps

\* code == kSynchronize: the loop and the pass end
DeferredSynchronize ==
  /\ DeferredLoop
  /\ pc' = "idle"
  /\ pos' = pos + 1
  /\ Logged(Ev("DeferredSynchronize", NoFrame))
  /\ UNCHANGED <<cfgVars, drvVars, hotVars, allocVars, stack, mem, weakFlag,
                 barriers, backing, postVars>>

DeferredAlignmentPrefix(ks) ==
  /\ DeferredLoop
  /\ \E k \in ks :
       /\ alignment' = AlignmentOf(k)
       /\ Logged([Ev("DeferredAlignmentPrefix", NoFrame) EXCEPT !.n = k])
  /\ pos' = pos + 1
  /\ pc' = pc
  /\ UNCHANGED <<cfgVars, drvVars, hotVars, objs, bump, stack, mem, weakFlag,
                 barriers, backing, postVars>>

\* The default case up to its ReadData call.  d.new says whether the code
\* read is kNewObject + space (DCHECK_EQ(code - space, kNewObject)).
DeferredObject(dom) ==
  /\ DeferredLoop
  /\ \E d \in dom :
       LET e == [Ev("DeferredObject", NoFrame) EXCEPT !.n = d.idx,
                                                    !.osp = d.space]
       IN  IF (debug /\ ~d.new) \/ ~Materialized(d.space, d.idx)
           THEN Abort(e)
           ELSE LET resolved == ResolveBackref(d.space, d.idx) IN
                \E thin \in (IF userCode THEN IsThinStringOutcomes(resolved)
                             ELSE {FALSE}) :
                \E actual \in (IF userCode /\ thin
                               THEN ActualOutcomes(resolved)
                               ELSE {kNullAddress}) :
                  LET object == BackRefResult(resolved, thin, actual)
                      f == Frame("deferred", object + kPointerSize,
                                 object + d.size * kPointerSize, d.space,
                                 object, FALSE, object, 0)
                  IN  /\ hot' = BackRefPushed(object)
                      /\ hotIndex' = HotNext
                      /\ stack' = <<f>>
                      /\ Logged([e EXCEPT !.obj = resolved,
                                          !.val = Ref(object, FALSE),
                                          !.at = f.cur, !.lim = f.lim,
                                          !.host = f.host])
                      /\ pos' = pos + 1
                      /\ pc' = pc
                      /\ UNCHANGED <<cfgVars, drvVars, allocVars, mem,
                                     weakFlag, barriers, backing, postVars>>

DeferredFilledCheckDropped(filled) == TRUE

\* CHECK(filled) in DeserializeDeferredObjects
DeferredFilledCheck(filled) == filled

\* CanBeDeferred(object)
CanBeDeferredOutcomes(a) == {~s : s \in IsStringOutcomes(a)}

\* The rest of the default case after its ReadData call
ReturnDeferred ==
  /\ pc = "deferred"
  /\ Len(stack) = 1
  /\ Top.kind = "deferred"
  /\ Top.ret = "false" \/ Top.cur >= Top.lim
  /\ LET f == Top
         filled == f.ret = "run"
         e == [Ev("DeferredDone", f) EXCEPT
                 !.res = IF filled THEN "true" ELSE "false", !.obj = f.obj]
     IN  IF (filled /\ ~LimitCheck(f)) \/ ~DeferredFilledCheck(filled)
         THEN AbortNoRead(e)
         ELSE \E can \in (IF debug THEN CanBeDeferredOutcomes(f.obj)
                          ELSE {TRUE}) :
                IF ~can
                THEN AbortNoRead(e)
                ELSE \E pp \in PostProcessNewObject(f.obj, f.space) :
                     IF pp.crash THEN AbortNoRead(e) ELSE
                     /\ objs' = MarkPost(objs, f.obj)
                     /\ mem' = pp.mem
                     /\ newStrings' = pp.strings
                     /\ toRehash' = pp.rehash
                     /\ externalStrings' = pp.external
                     /\ stack' = <<>>
                     /\ Logged(e)
                     /\ pc' = pc
                     /\ UNCHANGED <<cfgVars, drvVars, hotVars, bump, alignment,
                                    weakFlag, barriers, backing, rehashed,
                                    pos>>

\* Deserializer::Rehash: every item of to_rehash_ is visited in order.  The
\* callers run it once.
Rehash ==
  /\ pc = "idle"
  /\ \A i \in DOMAIN log : log[i].op # "Rehash"
  /\ LET e == [Ev("Rehash", NoFrame) EXCEPT !.n = Len(toRehash)] IN
     IF debug /\ ~(rehash \/ userCode)
     THEN AbortNoRead(e)
     ELSE /\ rehashed' = toRehash
          /\ Logged(e)
          /\ pc' = pc
          /\ UNCHANGED <<cfgVars, drvVars, hotVars, allocVars, stack, mem,
                         weakFlag, barriers, backing, newStrings, toRehash,
                         externalStrings, pos>>

\* Deserializer::~Deserializer.  tail: what is left of the stream ("none",
\* "nops": only kNop bytes, "other"); used: ReservationsAreFullyUsed().
Destructor(tails) ==
  /\ pc = "idle"
  /\ \E tail \in tails, used \in BOOLEAN :
       LET e == [Ev("Destructor", NoFrame) EXCEPT !.osp = tail] IN
       IF debug /\ pos # 0 /\ (tail = "other" \/ ~used)
       THEN AbortNoRead(e)
       ELSE /\ pc' = "done"
            /\ Logged(e)
            /\ UNCHANGED <<cfgVars, drvVars, hotVars, allocVars, stack, mem,
                           weakFlag, barriers, backing, postVars, pos>>

-----------------------------------------------------------------------------
(* Specification Spec: every opcode of ReadData, short streams *)

NewObjWide == {[space |-> "OLD", size |-> 1], [space |-> "OLD", size |-> 2]}

Init == InitWith(MaxOpsWide, BOOLEAN, {FALSE}, {1})

Next ==
  \/ VisitRootPointers({2})
  \/ ReturnRoot
  \/ NewObject(NewObjWide)
  \/ ReturnNewObject
  \/ Backref({[space |-> "OLD", idx |-> 0]})
  \/ RootArray({0})
  \/ PartialSnapshotCacheRef({0})
  \/ ReadOnlyObjectCacheRef({0})
  \/ AttachedReference({0})
  \/ HotObject({0})
  \/ ExternalReference({0})
  \/ ApiReference({0, 1})
  \/ ClearedWeakReference
  \/ RootArrayConstant({0})
  \/ FixedRawData({1, 2})
  \/ VariableRawData({4, 8})
  \/ Nop
  \/ NextChunk({"OLD"})
  \/ WeakPrefix
  \/ AlignmentPrefix({0})
  \/ OffHeapBackingStore({8})
  \/ SynchronizeInSpan
  \/ RelocOnlyOpcode
  \/ UnusedOpcode
  \/ Deferred
  \/ VariableRepeat({1, 2})
  \/ FixedRepeat({2})
  \/ ReturnRepeat

Spec == Init /\ [][Next]_vars

-----------------------------------------------------------------------------
(* Claims checked under Spec *)

ReturnOps == {"Return", "NewObjectDone", "RepeatDone", "DeferredDone"}

SingleSlotOps ==
  {"Backref", "RootArray", "PartialSnapshotCache", "ReadOnlyObjectCache",
   "AttachedReference", "RootArrayConstant", "HotObject",
   "ExternalReference", "ApiReference", "ClearedWeakReference"}

NoSlotOps ==
  {"Nop", "NextChunk", "WeakPrefix", "AlignmentPrefix", "OffHeapBackingStore"}

DeferredAtHeader(e) == e.op = "Deferred" /\ e.at = e.host + kTaggedSize

\* C1: ReadData returns false only after a deferred marker read while the
\* cursor is exactly one tagged word past the enclosing object's address
\* (stated here for the spans that have an enclosing object).
C1_FalseOnlyAfterHeaderDeferred ==
  \A i \in DOMAIN log :
    (log[i].res = "false" /\ log[i].host # kNullAddress) =>
      i > 1 /\ DeferredAtHeader(log[i - 1])

\* C2: a ReadData that returns true ends with its cursor exactly at its
\* limit; an activation whose cursor has passed its limit ends in an abort.
C2_TrueReturnAtLimit ==
  \A i \in DOMAIN log :
    log[i].op \in ReturnOps =>
      /\ log[i].res = "true" => log[i].at = log[i].lim
      /\ log[i].at > log[i].lim => log[i].res = "abort" /\ pc = "aborted"

C2_Witness ==
  /\ pc # "aborted"
  /\ Last.op = "NewObjectDone"
  /\ Last.res = "true"
  /\ Last.at = Last.lim
  /\ Last.lim = Last.host + 2 * kPointerSize

C2_OvershootAborts ==
  /\ pc = "aborted"
  /\ Last.op = "NewObjectDone"
  /\ Last.at > Last.lim

\* What C3 asks of one step
C3_Step ==
  (log' # log /\ pc' # "aborted" /\ stack # <<>>) =>
    LET e == Last' IN
      CASE e.op \in SingleSlotOps ->
             /\ Len(stack') = Len(stack)
             /\ Top'.cur = Top.cur + kPointerSize
        [] e.op = "FixedRawData" ->
             /\ Len(stack') = Len(stack)
             /\ Top'.cur = Top.cur + e.n * kPointerSize
        [] e.op = "VariableRawData" ->
             /\ Len(stack') = Len(stack)
             /\ Top'.cur = Top.cur + e.n
        [] e.op \in NoSlotOps -> stack' = stack
        [] e.op = "NewObject" ->
             /\ Len(stack') = Len(stack) + 1
             /\ stack'[Len(stack)] = Top
        [] e.op = "NewObjectDone" ->
             /\ Len(stack') = Len(stack) - 1
             /\ Top'.cur = Caller.cur + kPointerSize
        [] OTHER -> TRUE

\* C3: every opcode moves the write cursor of its span by a fixed amount:
\* one slot for a single-reference opcode (for a new object: once its body
\* has been read), k words for fixed raw data of k words, N bytes for
\* variable raw data of N bytes, nothing for the opcodes that write no slot.
C3_CursorDeltas == [][C3_Step]_vars

\* A two-slot object filled by one word of raw data and one reference
C3_Witness ==
  /\ pc # "aborted"
  /\ Last.op = "NewObjectDone"
  /\ Last.res = "true"
  /\ Last.lim = Last.host + 2 * kPointerSize
  /\ \E i, j \in DOMAIN log :
       /\ log[i].op = "FixedRawData" /\ log[i].host = Last.host
       /\ log[j].op \in SingleSlotOps /\ log[j].host = Last.host

-----------------------------------------------------------------------------
(* Specification SpecWeak: weak prefixes among reference opcodes *)

InitWeak == InitWith(MaxOpsWeak, BOOLEAN, {FALSE}, {1})

NextWeak ==
  \/ VisitRootPointers({3})
  \/ ReturnRoot
  \/ WeakPrefix
  \/ NewObject({[space |-> "OLD", size |-> 1]})
  \/ ReturnNewObject
  \/ FixedRawData({1})
  \/ Backref({[space |-> "OLD", idx |-> 0]})
  \/ RootArray({0})
  \/ HotObject({0})
  \/ RootArrayConstant({0})

SpecWeak == InitWeak /\ [][NextWeak]_vars

\* The opcodes that write one reference tagged by the weak flag at once
WeakAwareOps ==
  {"Backref", "RootArray", "PartialSnapshotCache", "ReadOnlyObjectCache",
   "AttachedReference", "HotObject"}

\* What C4 asks of one step
C4_Step ==
  (log' # log /\ pc' # "aborted") =>
    LET e == Last' IN
    /\ e.op = "WeakPrefix" => weakFlag'
    /\ (weakFlag' /\ ~weakFlag) => e.op = "WeakPrefix"
    /\ e.op \in WeakAwareOps =>
         /\ HasRef(mem', e.slot)
         /\ mem'[e.slot].weak = weakFlag
         /\ ~weakFlag'
    /\ e.op = "NewObject" => Top'.weak = weakFlag /\ ~weakFlag'
    /\ e.op = "NewObjectDone" =>
         /\ HasRef(mem', e.slot)
         /\ mem'[e.slot].weak = Top.weak
         /\ weakFlag' = weakFlag
    /\ \A k \in 1..Len(stack') : k < Len(stack) => stack'[k].weak = stack[k].weak

-----------------------------------------------------------------------------
(* Specification SpecBarrier: references into the young space *)

NewObjBarrier ==
  {[space |-> "NEW", size |-> 1], [space |-> "OLD", size |-> 2],
   [space |-> "CODE", size |-> 2]}

InitBarrier == InitWith(MaxOpsBarrier, BOOLEAN, {FALSE}, {1})

NextBarrier ==
  \/ VisitRootPointers({2})
  \/ ReturnRoot
  \/ NewObject(NewObjBarrier)
  \/ ReturnNewObject
  \/ FixedRawData({1})
  \/ AttachedReference({0})
  \/ Backref({[space |-> "NEW", idx |-> 0]})
  \/ HotObject({0})
  \/ FixedRepeat({2})
  \/ ReturnRepeat

SpecBarrier == InitBarrier /\ [][NextBarrier]_vars

\* The steps that write a reference through ReadDataCase or the hot-object case
BarrierOps == WeakAwareOps \cup {"NewObjectDone"}

\* The written reference is one the code takes for young: a new object or a
\* back-reference naming the young space, a looked-up object that is young
YoungTarget(e) ==
  IF e.op \in {"Backref", "NewObjectDone"} THEN e.osp = "NEW"
  ELSE InYoungGeneration(e.val.obj)

\* The slots written by the step logged as e
SlotsOf(e) ==
  {e.slot + k * kPointerSize :
     k \in 0..((IF e.op = "RepeatDone" THEN e.n ELSE 1) - 1)}

\* What C5 asks of one step
C5_Step ==
  (log' # log /\ pc' # "aborted") =>
    LET e == Last' IN
    /\ e.op \in BarrierOps =>
         /\ (e.slot \in barriers') <=>
              (\/ e.slot \in barriers
               \/ /\ e.shost # kNullAddress
                  /\ e.sspace \notin {"NEW", "CODE"}
                  /\ YoungTarget(e))
         /\ barriers' \subseteq barriers \cup {e.slot}
         /\ Top'.cur = e.slot + kPointerSize
    /\ e.op \notin BarrierOps => barriers' = barriers

\* C5 (as the code has it): a reference written by a new-object,
\* back-reference, table-lookup or hot-object opcode into a span with a
\* non-null host whose source space is neither the young space nor the code
\* space gets a generational barrier for its slot, in the step that advances
\* the cursor past it, exactly if its target is young; spans of the code
\* space or without a host, and the slots a repeat fills, get none.
C5_BarrierWhenNeeded == [][C5_Step]_vars

\* A young object referenced from the second slot of an old-space object
C5_Witness ==
  /\ pc # "aborted"
  /\ Last.op \in BarrierOps
  /\ Last.sspace = "OLD"
  /\ SpaceOf(Last.shost) = "OLD"
  /\ Last.slot = Last.shost + kPointerSize
  /\ HasRef(mem, Last.slot)
  /\ InYoungGeneration(mem[Last.slot].obj)
  /\ Last.slot \in barriers

\* C5 as claimed: every reference slot written (repeated references
\* included) in an object outside the young space that receives a reference
\* to a young object has a barrier recorded.
C5_BarrierForEveryYoungRef ==
  \A i \in DOMAIN log :
    LET e == log[i] IN
    (/\ e.res # "abort"
     /\ e.op \in BarrierOps \cup {"RepeatDone"}
     /\ e.shost # kNullAddress
     /\ ~InYoungGeneration(e.shost)
     /\ e.val.t = "ref"
     /\ InYoungGeneration(e.val.obj)) => SlotsOf(e) \subseteq barriers

-----------------------------------------------------------------------------
(* Specification SpecRepeat: repeat opcodes *)

InitRepeat == InitWith(MaxOpsRepeat, BOOLEAN, {FALSE}, {1})

NextRepeat ==
  \/ VisitRootPointers({5})
  \/ ReturnRoot
  \/ FixedRepeat({5})
  \/ VariableRepeat({1, 2})
  \/ ReturnRepeat
  \/ NewObject({[space |-> "OLD", size |-> 1]})
  \/ ReturnNewObject
  \/ FixedRawData({1})
  \/ RootArray({0})
  \/ Backref({[space |-> "OLD", idx |-> 0]})

SpecRepeat == InitRepeat /\ [][NextRepeat]_vars

RepeatOps == {"FixedRepeat", "VariableRepeat"}

\* What C6 asks of one step
C6_Step ==
  log' # log =>
    LET e == Last' IN
    /\ (e.op \in RepeatOps /\ e.n < 2) => pc' = "aborted" /\ mem' = mem
    /\ (e.op \in RepeatOps /\ pc' # "aborted") =>
         /\ e.n >= 2
         /\ Len(stack') = Len(stack) + 1
         /\ Top'.lim = Top'.cur + kPointerSize
         /\ Top'.rep = e.n
         /\ mem' = mem
    /\ (e.op = "RepeatDone" /\ pc' # "aborted") =>
         LET temp == Top.lim - kPointerSize
             first == Caller.cur
             written == {first + k * kPointerSize : k \in 0..(Top.rep - 1)}
         IN  /\ Top.rep >= 2
             /\ temp \in DOMAIN mem
             /\ \A a \in written :
                  /\ a \in DOMAIN mem'
                  /\ mem'[a] = mem'[first]
                  /\ mem'[a].len = kPointerSize
                  /\ mem[temp].t = "ref" => mem'[a] = Ref(mem[temp].obj, FALSE)
             /\ \A a \in DOMAIN mem' \ written : a \in DOMAIN mem /\ mem'[a] = mem[a]
             /\ Len(stack') = Len(stack) - 1
             /\ Top'.cur = first + Top.rep * kPointerSize

\* C6: a repeat opcode with count n decodes one slot's worth of stream into
\* a temporary, then writes the reference found there into the n slots from
\* the cursor on and moves the cursor by n slots, leaving the rest of the
\* memory alone; a count below 2 aborts without a write.
C6_RepeatWritesNSlots == [][C6_Step]_vars

\* A fixed repeat of 5 over a new object: five equal root slots
C6_Witness ==
  /\ pc # "aborted"
  /\ Last.op = "RepeatDone"
  /\ Last.n = 5
  /\ Len(objs) = 1
  /\ \A k \in 0..4 :
       /\ HasRef(mem, RootGroup(0) + k * kPointerSize)
       /\ mem[RootGroup(0) + k * kPointerSize] = Ref(objs[1].addr, FALSE)
  /\ Top.cur = RootGroup(0) + 5 * kPointerSize

-----------------------------------------------------------------------------
(* Specification SpecBackref: back-references, in spans and in the deferred *)
(* pass, in both decoding modes                                             *)

InitBackref == InitWith(MaxOpsBackref, BOOLEAN, BOOLEAN, {1})

NextBackref ==
  \/ VisitRootPointers({1, 2})
  \/ ReturnRoot
  \/ NewObject({[space |-> "OLD", size |-> 3]})
  \/ ReturnNewObject
  \/ RootArrayConstant({0, 1})
  \/ Backref({[space |-> "OLD", idx |-> 0]})
  \/ Deferred
  \/ DeserializeDeferredObjects
  \/ DeferredObject({[new |-> TRUE, space |-> "OLD", idx |-> 0, size |-> 3]})
  \/ ReturnDeferred
  \/ DeferredSynchronize

SpecBackref == InitBackref /\ [][NextBackref]_vars

\* The object whose map word is intact and names the thin-string map
IsWrapper(m, a) == HasRef(m, a) /\ m[a].obj = ThinStringMap

\* The object whose map word is intact and names another map
IsNoWrapper(m, a) == HasRef(m, a) /\ m[a].obj # ThinStringMap

\* What C7 asks of one step
C7_Step ==
  (log' # log /\ pc' # "aborted" /\ Last'.op \in {"Backref", "DeferredObject"})
  =>
    LET e == Last'
        resolved == ObjsIn(e.osp)[e.n + 1].addr
        result == IF e.op = "Backref" THEN mem'[e.slot].obj ELSE Top'.host
    IN  /\ hot'[hotIndex] = result
        /\ hotIndex' = (hotIndex + 1) % kNumberOfHotObjects
        /\ \A k \in DOMAIN hot : k # hotIndex => hot'[k] = hot[k]
        /\ (userCode /\ IsWrapper(mem, resolved)
              /\ HasRef(mem, resolved + kActualOffset)) =>
             result = mem[resolved + kActualOffset].obj
        /\ (~userCode \/ IsNoWrapper(mem, resolved)) => result = resolved

\* C7: every resolution of a back-reference, by a back-reference opcode of
\* a span or by an entry of the deferred pass, puts the object it returns
\* into the hot-object ring at the ring's write position and moves that
\* position on; when user code is decoded and the resolved object is a thin
\* string, the object returned and pushed is the string it wraps, otherwise
\* it is the resolved object itself.
C7_BackrefPushesResult == [][C7_Step]_vars

\* User code: a back-reference to a thin string yields the wrapped string
C7_Witness ==
  /\ pc # "aborted"
  /\ userCode
  /\ Last.op = "Backref"
  /\ Len(objs) = 1
  /\ Last.obj = objs[1].addr
  /\ IsWrapper(mem, Last.obj)
  /\ HasRef(mem, Last.obj + kActualOffset)
  /\ HasRef(mem, Last.slot)
  /\ mem[Last.slot].obj = mem[Last.obj + kActualOffset].obj
  /\ mem[Last.slot].obj # Last.obj
  /\ hot[0] = mem[Last.slot].obj

\* The deferred pass resolves its entry through the same resolver
C7_DeferredPassPushes ==
  /\ pc = "deferred"
  /\ Last.op = "DeferredObject"
  /\ Len(objs) = 1
  /\ hot[0] = objs[1].addr
  /\ Top.host = objs[1].addr

-----------------------------------------------------------------------------
(* Specification SpecHot: the hot-object ring over long root spans; the    *)
(* streams explored start with at most one new object                      *)

InitHot == InitWith(MaxOpsHot, BOOLEAN, {FALSE}, {1})

NextHot ==
  \/ VisitRootPointers({10})
  \/ ReturnRoot
  \/ RootArray({0, 1})
  \/ HotObject({0})
  \/ (pos = 0 /\ NewObject({[space |-> "OLD", size |-> 1]}))
  \/ ReturnNewObject

SpecHot == InitHot /\ [][NextHot]_vars

Max(S) == CHOOSE x \in S : \A y \in S : y <= x

\* Entry k of a ring of kNumberOfHotObjects entries after the objects of
\* seq were added one by one, starting at entry 0
RingAfter(seq, k) ==
  LET turns == {j \in 1..Len(seq) : (j - 1) % kNumberOfHotObjects = k}
  IN  IF turns = {} THEN kNullAddress ELSE seq[Max(turns)]

\* The steps that call hot_objects_.Add, and the objects they added
PushOps == {"Backref", "RootArray", "DeferredObject"}

RECURSIVE ObjectsOf(_, _, _)
ObjectsOf(events, ops, upTo) ==
  IF upTo = 0 THEN <<>>
  ELSE LET e == events[upTo]
           before == ObjectsOf(events, ops, upTo - 1)
       IN  IF e.op \in ops /\ e.res \notin {"abort", "false"}
           THEN Append(before, e.val.obj) ELSE before

\* C8 (as the code has it): the hot-object ring has 8 entries and holds the
\* objects most recently resolved by back-reference and root-array opcodes
\* (new objects are not added): entry k holds the latest of the objects
\* added at turns k+1, k+9, ..., so after 9 additions entry 0 holds the 9th,
\* and a hot-object opcode writes a reference to the entry it names.
C8_RingOverResolved ==
  LET added == ObjectsOf(log, PushOps, Len(log)) IN
  /\ \A k \in DOMAIN hot : hot[k] = RingAfter(added, k)
  /\ hotIndex = Len(added) % kNumberOfHotObjects
  /\ (Last.op = "HotObject" /\ Last.res # "abort") =>
       /\ HasRef(mem, Last.slot)
       /\ mem[Last.slot].obj = RingAfter(added, Last.n)

\* Nine root-array lookups, the first and the ninth of different objects,
\* then a hot-object opcode with index 0: it writes the ninth
C8_Witness ==
  LET added == ObjectsOf(log, PushOps, Len(log)) IN
  /\ pc # "aborted"
  /\ Last.op = "HotObject"
  /\ Last.n = 0
  /\ Len(added) = 9
  /\ added[9] # added[1]
  /\ HasRef(mem, Last.slot)
  /\ mem[Last.slot].obj = added[9]

\* C8 as claimed: the ring is over the objects materialized by new-object
\* opcodes, so a hot-object opcode with index 0 read after some objects were
\* materialized writes the latest of the 1st, 9th, ... of them.
C8_RingOverMaterialized ==
  \A i \in DOMAIN log :
    (/\ log[i].op = "HotObject"
     /\ log[i].res # "abort"
     /\ log[i].n = 0
     /\ ObjectsOf(log, {"NewObjectDone"}, i - 1) # <<>>) =>
      log[i].val.obj = RingAfter(ObjectsOf(log, {"NewObjectDone"}, i - 1), 0)

-----------------------------------------------------------------------------
(* Specification SpecDeferred: deferral in the root pass, the deferred pass *)
(* and the end of the deserializer's life                                   *)

DeferredEntries ==
  {[new |-> n, space |-> "OLD", idx |-> 0, size |-> 2] : n \in BOOLEAN}

InitDeferred == InitWith(MaxOpsDeferred, BOOLEAN, {FALSE}, {1})

NextDeferred ==
  \/ VisitRootPointers({1})
  \/ ReturnRoot
  \/ NewObject({[space |-> "OLD", size |-> 2]})
  \/ ReturnNewObject
  \/ FixedRawData({1})
  \/ Deferred
  \/ DeserializeDeferredObjects
  \/ DeferredObject(DeferredEntries)
  \/ DeferredAlignmentPrefix({0})
  \/ ReturnDeferred
  \/ DeferredSynchronize
  \/ Destructor({"none", "nops", "other"})

SpecDeferred == InitDeferred /\ [][NextDeferred]_vars

\* Some write covers the byte at address a
Covered(m, a) == \E k \in DOMAIN m : k <= a /\ a < k + m[k].len

\* Every word from `from` up to `to` has been written
SpanCovered(m, from, to) ==
  \A a \in from..(to - 1) : (a - from) % kPointerSize = 0 => Covered(m, a)

\* What C9 asks of one step
C9_Step ==
  log' # log =>
    LET e == Last' IN
    /\ (e.op = "DeferredObject" /\ pc' # "aborted") =>
         /\ Len(stack') = 1
         /\ Top'.kind = "deferred"
         /\ Top'.cur = Top'.host + kPointerSize
         /\ \E i \in DOMAIN objs :
              /\ objs[i].addr = Top'.host
              /\ Top'.lim = Top'.host + objs[i].size
    /\ e.op = "DeferredDone" =>
         /\ Top.ret = "false" => pc' = "aborted" /\ objs' = objs
         /\ pc' # "aborted" =>
              /\ Top.ret = "run"
              /\ Top.cur = Top.lim
              /\ SpanCovered(mem, Top.host + kPointerSize, Top.lim)
    /\ \A i \in DOMAIN objs :
         (objs[i].st = "deferred" /\ ~objs[i].post /\ objs'[i].post) =>
           /\ e.op = "DeferredDone"
           /\ e.res = "true"
           /\ objs[i].addr = Top.host

\* C9: an entry of the deferred pass decodes the span from one word past
\* its object's address to the address plus the stored size; if that decode
\* returns false the process aborts and nothing is post-processed; an
\* object whose body was deferred is post-processed only by the step that
\* ends such a decode with the span filled up to its limit.
C9_DeferredSpanMustFill == [][C9_Step]_vars

\* An object deferred in the root pass, filled and post-processed by the
\* deferred pass
C9_Witness ==
  /\ pc = "deferred"
  /\ Last.op = "DeferredDone"
  /\ Last.res = "true"
  /\ \E i \in DOMAIN log :
       /\ log[i].op = "NewObjectDone"
       /\ log[i].res = "false"
       /\ log[i].obj = Last.obj
  /\ \E i \in DOMAIN objs : objs[i].addr = Last.obj /\ objs[i].post

\* The deferred pass aborts on an entry whose span decode returns false
C9_UnfilledAborts ==
  /\ pc = "aborted"
  /\ Last.op = "DeferredDone"
  /\ Last.res = "abort"
  /\ Top.ret = "false"

\* The body of the object at address a was deferred by a marker read right
\* after the object's header
DeferredAfterHeader(a) ==
  \E j \in DOMAIN log :
    /\ DeferredAtHeader(log[j])
    /\ log[j].res # "abort"
    /\ log[j].host = a

\* C10: no run ends successfully (the deserializer is destroyed without an
\* abort) while an object whose body was deferred is still unfilled and
\* not post-processed.
C10_NoSuccessWithDeferredLeft ==
  pc = "done" =>
    \A i \in DOMAIN objs :
      ~(/\ objs[i].st = "deferred"
        /\ ~objs[i].post
        /\ DeferredAfterHeader(objs[i].addr))

-----------------------------------------------------------------------------
(* Claims about malformed streams, checked under Spec *)

\* C11: a byte outside the recognized opcode set read by ReadData ends in a
\* fatal abort: it is never skipped, and no activation that consumed one
\* returns true.
C11_UnusedOpcodeAborts ==
  \A i \in DOMAIN log :
    log[i].op = "Unused" =>
      /\ log[i].res = "abort"
      /\ \A j \in DOMAIN log :
           (j > i /\ log[j].op \in ReturnOps /\ log[j].depth = log[i].depth)
             => log[j].res # "true"

-----------------------------------------------------------------------------
(* Specification SpecSync: synchronize markers in and between spans *)

InitSync == InitWith(MaxOpsSync, BOOLEAN, {FALSE}, {1})

NextSync ==
  \/ VisitRootPointers({1, 2})
  \/ ReturnRoot
  \/ Synchronize({"Synchronize", "Nop"})
  \/ SynchronizeInSpan
  \/ RootArrayConstant({0})
  \/ NewObject({[space |-> "OLD", size |-> 1]})
  \/ ReturnNewObject
  \/ DeserializeDeferredObjects
  \/ DeferredSynchronize

SpecSync == InitSync /\ [][NextSync]_vars

\* What C12 asks of one step
C12_Step ==
  log' # log =>
    LET e == Last' IN
    /\ e.op = "Synchronize" => pc' = "aborted" /\ stack # <<>>
    /\ e.op = "DriverSynchronize" =>
         /\ pc = "idle" /\ stack = <<>>
         /\ IF e.osp = "NONE"
            THEN pc' = "idle" /\ pos' = pos + 1
            ELSE pc' = "aborted"
    /\ e.op = "DeferredSynchronize" =>
         pc = "deferred" /\ stack = <<>> /\ pc' = "idle" /\ pos' = pos + 1
    /\ (stack # <<>> /\ pc' # "aborted") => e.op # "Synchronize"

\* C12: a synchronize marker is consumed without an abort only by the
\* driver's Synchronize step, outside every span, or as the byte that ends
\* the deferred pass; the driver's step aborts on any other byte, and a
\* synchronize marker read by ReadData inside a span aborts.
C12_SynchronizeOnlyByDriver == [][C12_Step]_vars

\* A root group, the driver's synchronize, then an empty deferred pass
C12_Witness ==
  /\ pc = "idle"
  /\ Last.op = "DeferredSynchronize"
  /\ \E i, j \in DOMAIN log :
       /\ i < j
       /\ log[i].op = "Return" /\ log[i].res = "true"
       /\ log[j].op = "DriverSynchronize" /\ log[j].res = "ok"

\* A synchronize marker inside a span aborts
C12_InSpanAborts ==
  /\ pc = "aborted"
  /\ Last.op = "Synchronize"
  /\ Top.kind = "newobj"

-----------------------------------------------------------------------------
(* Specification SpecApi: embedder references with and without a table *)

\* apiCount: -1 = the embedder supplied no table, else the table's entries
InitApi == InitWith(MaxOpsApi, BOOLEAN, {FALSE}, {-1, 0, 1})

NextApi ==
  \/ VisitRootPointers({1, 2})
  \/ ReturnRoot
  \/ ApiReference({0, 1})
  \/ Nop

SpecApi == InitApi /\ [][NextApi]_vars

\* C13: an embedder-reference opcode with a table supplied and an index at
\* or beyond the number of its entries aborts fatally; without a table the
\* slot receives the address of the sentinel callback; otherwise the slot
\* receives the table's entry at that index.
C13_ApiReferenceChecked ==
  \A i \in DOMAIN log :
    log[i].op = "ApiReference" =>
      IF apiCount >= 0 /\ log[i].n >= apiCount
      THEN log[i].res = "abort" /\ log[i].val.t # "crash"
      ELSE /\ log[i].res = "ok"
           /\ log[i].val =
                IF apiCount < 0 THEN AddrVal("NoExternalReferencesCallback", 0)
                ELSE AddrVal("api", log[i].n)


-----------------------------------------------------------------------------
(* C14 under SpecBackref *)

\* C14: a back-reference whose index names no object materialized so far in
\* its space aborts, and a back-reference that resolves names an object that
\* was allocated and whose header (map word) was written before the
\* back-reference was read.
C14_BackrefToInitializedOnly ==
  \A i \in DOMAIN log :
    log[i].op = "Backref" =>
      IF log[i].res = "abort"
      THEN \A j \in 1..(i - 1) :
             ~(log[j].op = "NewObject" /\ log[j].osp = log[i].osp)
      ELSE /\ \E j \in 1..(i - 1) :
                /\ log[j].op = "NewObject"
                /\ log[j].obj = log[i].obj
           /\ log[i].hdr


-----------------------------------------------------------------------------
(* Specification SpecIntern: internalized strings decoded into root slots, *)
(* with back-references to them, in both decoding modes                    *)

MaxOpsIntern == 6

InitIntern == InitWith(MaxOpsIntern, BOOLEAN, BOOLEAN, {1})

NextIntern ==
  \/ VisitRootPointers({3})
  \/ ReturnRoot
  \/ NewObject({[space |-> "OLD", size |-> 3]})
  \/ ReturnNewObject
  \/ RootArrayConstant({3})
  \/ FixedRawDataWords({[words |-> 2, content |-> c] : c \in StringContents})
  \/ Backref({[space |-> "OLD", idx |-> 0], [space |-> "OLD", idx |-> 1]})

SpecIntern == InitIntern /\ [][NextIntern]_vars

\* Step i completes a new object that the stream filled as an internalized
\* string of content c: its map, then two words of raw data.
InternedAs(i, c) ==
  /\ log[i].op = "NewObjectDone"
  /\ log[i].res = "true"
  /\ \E j \in 1..(i - 1) :
       /\ log[j].op = "RootArrayConstant"
       /\ log[j].n = 3
       /\ log[j].slot = log[i].host
  /\ \E j \in 1..(i - 1) :
       /\ log[j].op = "FixedRawData"
       /\ log[j].slot = log[i].host + kHashFieldOffset
       /\ log[j].val.obj = c

\* A match: the reference written is the canonical string, and so is every
\* later back-reference to the duplicate.
MatchForwards(i) ==
  /\ log[i].obj = CanonicalString
  /\ log[i].val.obj = CanonicalString
  /\ \A k \in DOMAIN log :
       (k > i /\ log[k].op = "Backref" /\ log[k].res = "ok"
          /\ log[k].obj = log[i].host)
         => log[k].val.obj = CanonicalString

\* No match: the new string itself is written and recorded.
NoMatchRecords(i) ==
  /\ log[i].obj = log[i].host
  /\ log[i].val.obj = log[i].host
  /\ \E n \in DOMAIN newStrings : newStrings[n] = log[i].host

\* C15 as stated: in user-code mode a new internalized string with an equal
\* entry in the string table is replaced by the canonical string, also for
\* later back-references; one without is recorded as new; hence any two new
\* strings of equal content resolve to the same object.
C15_EqualContentSameObject ==
  userCode =>
    \A i \in DOMAIN log : \A c \in StringContents :
      InternedAs(i, c) =>
        /\ IF c = CanonicalContent THEN MatchForwards(i) ELSE NoMatchRecords(i)
        /\ \A j \in DOMAIN log : InternedAs(j, c) => log[j].obj = log[i].obj

\* C15 (amended): in user-code mode a new internalized string with an equal
\* entry in the string table is replaced by the canonical string, also for
\* later back-references; one without is recorded as new; two new strings of
\* equal content resolve to the same object when the table held that content
\* before decoding.
C15_CanonicalWhenInTable ==
  userCode =>
    \A i \in DOMAIN log : \A c \in StringContents :
      InternedAs(i, c) =>
        /\ IF c = CanonicalContent THEN MatchForwards(i) ELSE NoMatchRecords(i)
        /\ c = CanonicalContent =>
             \A j \in DOMAIN log : InternedAs(j, c) => log[j].obj = log[i].obj

\* A duplicate of the canonical string was decoded and a later
\* back-reference to the duplicate was resolved.
C15_Witness ==
  /\ userCode
  /\ \E i \in DOMAIN log :
       /\ InternedAs(i, CanonicalContent)
       /\ \E k \in DOMAIN log :
            /\ k > i
            /\ log[k].op = "Backref"
            /\ log[k].res = "ok"
            /\ log[k].obj = log[i].host
            /\ log[k].val.obj = CanonicalString

\* A string of a content the table lacks was decoded and recorded.
C15_WitnessNew ==
  /\ userCode
  /\ \E i \in DOMAIN log :
       InternedAs(i, 2) /\ newStrings = <<log[i].host>>


-----------------------------------------------------------------------------
(* Specification SpecPost: objects filled at once or deferred, and a       *)
(* deferred pass whose entries restate the object's size or a smaller one  *)

MaxOpsPost == 6

PostEntries ==
  {[new |-> TRUE, space |-> "OLD", idx |-> 0, size |-> n] : n \in {1, 2}}

InitPost == InitWith(MaxOpsPost, BOOLEAN, {FALSE}, {1})

NextPost ==
  \/ VisitRootPointers({1, 2})
  \/ ReturnRoot
  \/ NewObject({[space |-> "OLD", size |-> 2]})
  \/ ReturnNewObject
  \/ RootArrayConstant({0})
  \/ Deferred
  \/ DeserializeDeferredObjects
  \/ DeferredObject(PostEntries)
  \/ ReturnDeferred
  \/ DeferredSynchronize

SpecPost == InitPost /\ [][NextPost]_vars

\* The deferred section read so far names only objects whose body was
\* deferred, each of them once.
NamesDeferredOnce(events) ==
  \A k \in DOMAIN events :
    (events[k].op = "DeferredObject" /\ events[k].res # "abort") =>
      /\ \E j \in 1..(k - 1) :
           /\ events[j].op = "NewObjectDone"
           /\ events[j].res = "false"
           /\ events[j].host = events[k].host
      /\ \A j \in 1..(k - 1) :
           ~(/\ events[j].op = "DeferredObject"
             /\ events[j].res # "abort"
             /\ events[j].host = events[k].host)

\* Every entry of the deferred section read so far restates the size its
\* object was allocated with.
RestatesSize(events) ==
  \A k \in DOMAIN events :
    (events[k].op = "DeferredObject" /\ events[k].res # "abort") =>
      \A i \in DOMAIN objs :
        objs[i].addr = events[k].host =>
          events[k].lim = objs[i].addr + objs[i].size

\* What C16 asks of one step; `from` is the offset of the first word that
\* must be written before an object is post-processed by the deferred pass.
PostProcessedWhenWritten(from) ==
  log' # log =>
    LET e == Last' IN
    /\ (e.op = "NewObjectDone" /\ pc' # "aborted") =>
         \A i \in DOMAIN objs :
           objs[i].addr = e.host =>
             objs'[i].posts =
               objs[i].posts + (IF e.res = "true" THEN 1 ELSE 0)
    /\ \A i \in DOMAIN objs :
         objs'[i].posts # objs[i].posts =>
           /\ objs'[i].posts = 1
           /\ e.host = objs[i].addr
           /\ e.res = "true"
           /\ \/ /\ e.op = "NewObjectDone"
                 /\ SpanCovered(mem, objs[i].addr,
                                objs[i].addr + objs[i].size)
              \/ /\ e.op = "DeferredDone"
                 /\ objs[i].st = "deferred"
                 /\ SpanCovered(mem, objs[i].addr + from,
                                objs[i].addr + objs[i].size)

\* C16 as stated: an object is post-processed at most once and only when
\* all of it is written: by ReadObject exactly when its body decode
\* returned filled, by the deferred pass for a deferred object after the
\* rest of its body is filled, given a deferred section that names each
\* deferred object once.
C16_PostProcessedFullyWritten ==
  [][NamesDeferredOnce(log') => PostProcessedWhenWritten(0)]_vars

\* C16 (amended): as stated, for a deferred section that names each deferred
\* object once and restates its size; what is written when the deferred pass
\* post-processes an object is every word behind its header.
C16_PostProcessedOnceFilled ==
  [][(NamesDeferredOnce(log') /\ RestatesSize(log'))
       => PostProcessedWhenWritten(kPointerSize)]_vars

\* An object was deferred, named once by the deferred section with its
\* size, filled there and post-processed; another was post-processed by
\* ReadObject.
C16_Witness ==
  /\ NamesDeferredOnce(log) /\ RestatesSize(log)
  /\ \E k \in DOMAIN log :
       log[k].op = "DeferredDone" /\ log[k].res = "true"
  /\ \E i \in DOMAIN objs : objs[i].st = "filled" /\ objs[i].posts = 1
  /\ \E k \in DOMAIN log :
       log[k].op = "NewObjectDone" /\ log[k].res = "true"


-----------------------------------------------------------------------------
(* Specification SpecCode: code objects, their raw code, header fields and *)
(* relocation records                                                      *)

MaxOpsCode == 6

InitCode == InitWith(MaxOpsCode, BOOLEAN, {FALSE}, {1})

NextCode ==
  \/ VisitRootPointers({1})
  \/ ReturnRoot
  \/ NewObject({[space |-> "CODE", size |-> 5]})
  \/ ReturnNewObject
  \/ RootArrayConstant({2})
  \/ RelocOnlyOpcode
  \/ VariableRawCode({kPointerSize, 2 * kPointerSize})
  \/ ReturnCodeBody
  \/ VisitRuntimeEntry
  \/ VisitExternalReference({"ExternalReference", "Nop"}, {0})
  \/ VisitInternalReference({"InternalReference", "InternalReferenceEncoded",
                             "ExternalReference"})
  \/ VisitOffHeapTarget({"OffHeapTarget", "Nop"})
  \/ VisitPointer({"CODE_TARGET", "EMBEDDED_OBJECT"})
  \/ ReturnVisitPointer
  \/ VariableRawCodeDone

SpecCode == InitCode /\ [][NextCode]_vars

\* What C17 asks of one step
C17_Step ==
  log' # log =>
    LET e == Last' IN
    /\ (e.op = "VariableRawCode" /\ e.at # e.host + kTaggedSize) =>
         pc' = "aborted"
    /\ e.op = "VariableRawCodeDone" =>
         IF e.slot = e.lim
         THEN /\ pc' # "aborted"
              /\ Top'.cur = Top'.lim
              /\ e.lim = e.host + kDataStart + e.n
         ELSE pc' = "aborted"

\* C17: a variable-raw-code opcode is accepted only with the cursor right
\* behind the code object's header; once the instructions are copied, the
\* header fields decoded and the relocation records resolved, the cursor
\* equals the span limit (object address + data start + instruction byte
\* count), and decoding aborts otherwise.
C17_RawCodeOnlyAfterHeader == [][C17_Step]_vars

\* The second half of C17 alone: what the CHECK_EQ of line 666 decides
C17_EndStep ==
  (log' # log /\ Last'.op = "VariableRawCodeDone") =>
    IF Last'.slot = Last'.lim
    THEN pc' # "aborted" /\ Top'.cur = Top'.lim
    ELSE pc' = "aborted"

C17_EndChecked == [][C17_EndStep]_vars

\* A code object whose raw code came right behind its header was completed
C17_WitnessEnd ==
  /\ Last.op = "VariableRawCodeDone"
  /\ Last.res = "ok"
  /\ Last.at = Last.host + kTaggedSize
  /\ Top.cur = Last.host + kDataStart + Last.n


-----------------------------------------------------------------------------
(* C20 under SpecCode *)

RelocOnlyOps == {"InternalReferenceEncoded", "InternalReference",
                 "OffHeapTarget"}

\* What C20 asks of one step
C20_Step ==
  log' # log =>
    LET e == Last' IN
    /\ e.op \in RelocOnlyOps => pc' = "aborted"
    /\ (e.op = "VisitExternalReference" /\ e.osp # "ExternalReference") =>
         pc' = "aborted"
    /\ (e.op = "VisitInternalReference"
          /\ e.osp \notin {"InternalReference", "InternalReferenceEncoded"})
         => pc' = "aborted"
    /\ (e.op = "VisitOffHeapTarget" /\ e.osp # "OffHeapTarget") =>
         pc' = "aborted"
    /\ e.op = "VisitRuntimeEntry" => pc' = "aborted"

\* C20: an internal-reference or off-heap-target opcode read by the ReadData
\* loop is fatal; while relocation records are resolved, an
\* external-reference, internal-reference or off-heap-target record whose
\* leading stream byte is not the matching opcode is fatal, and a
\* runtime-entry record is always fatal.
C20_RelocOpcodesChecked == [][C20_Step]_vars

\* An external-reference record of a code object met another leading byte
\* and decoding aborted.
C20_Witness ==
  /\ pc = "aborted"
  /\ Last.op = "VisitExternalReference"
  /\ Last.osp = "Nop"
  /\ \E k \in DOMAIN log : log[k].op = "CodeBodyDone" /\ log[k].res = "true"

\* The records with their matching leading byte are resolved, and the
\* reloc-only opcodes abort in the ReadData loop.
C20_WitnessResolved ==
  /\ pc # "aborted"
  /\ \E k \in DOMAIN log : log[k].op = "VisitInternalReference"
  /\ \E k \in DOMAIN log : log[k].op = "VisitOffHeapTarget"

C20_WitnessInLoop ==
  /\ pc = "aborted"
  /\ Last.op = "OffHeapTarget"
  /\ Last.kind = "newobj"


-----------------------------------------------------------------------------
(* Specification SpecNested: a deferred pass whose entries hold new        *)
(* objects and repeats, with deferral markers at every level               *)

MaxOpsNested == 7

NestedEntries ==
  {[new |-> TRUE, space |-> "OLD", idx |-> i, size |-> 2] : i \in {0, 1}}

InitNested == InitWith(MaxOpsNested, BOOLEAN, {FALSE}, {1})

NextNested ==
  \/ VisitRootPointers({1})
  \/ ReturnRoot
  \/ NewObject({[space |-> "OLD", size |-> 2]})
  \/ ReturnNewObject
  \/ RootArrayConstant({0})
  \/ Deferred
  \/ VariableRepeat({2})
  \/ ReturnRepeat
  \/ DeserializeDeferredObjects
  \/ DeferredObject(NestedEntries)
  \/ ReturnDeferred
  \/ DeferredSynchronize

SpecNested == InitNested /\ [][NextNested]_vars

\* A ReadData call of the deferred pass has just ended by returning false
ReturnedFalseInPass ==
  pc = "deferred" /\ stack # <<>> /\ Top.ret = "false"

\* C19 as stated: in the deferred pass no ReadData call, the body decode of
\* a nested new object included, returns false on a deferred marker without
\* a fatal abort.
C19_NoDeferralInPass ==
  [][ReturnedFalseInPass => pc' = "aborted"]_vars

\* C19 (amended): in the deferred pass a ReadData call that returns false on
\* a deferred marker is fatal, unless it is the body decode of a new object
\* nested in the deferred body: that object is deferred in turn, the
\* reference to it is written and the pass goes on.
C19_NoDeferralOfEntries ==
  [][ReturnedFalseInPass =>
       IF Top.kind = "newobj"
       THEN /\ pc' = "deferred"
            /\ \E i \in DOMAIN objs :
                 /\ objs[i].addr = Top.obj
                 /\ objs'[i].st = "deferred"
                 /\ objs'[i].posts = 0
            /\ HasRef(mem', Caller.cur)
            /\ mem'[Caller.cur].obj = Top.obj
       ELSE pc' = "aborted"]_vars

\* The body decode of an entry of the deferred section met a deferral
\* marker and decoding aborted.
C19_Witness ==
  /\ pc = "aborted"
  /\ Last.op = "DeferredDone"
  /\ Top.kind = "deferred"
  /\ Top.ret = "false"
  /\ \E k \in DOMAIN log : log[k].op = "DeferredObject"

\* A new object nested in a deferred body was deferred in the pass, and the
\* pass completed the entry.
C19_WitnessNested ==
  /\ pc = "deferred"
  /\ Last.op = "DeferredDone"
  /\ Last.res = "true"
  /\ \E i \in DOMAIN objs : objs[i].st = "deferred" /\ objs[i].posts = 0

-----------------------------------------------------------------------------
(* Specification SpecRehash: hash-dependent objects and the rehash pass *)

MaxOpsRehash == 5

RehashEntries == {[new |-> TRUE, space |-> "OLD", idx |-> 0, size |-> 1]}

InitRehashed ==
  InitRehash(MaxOpsRehash, BOOLEAN, BOOLEAN, {1}, BOOLEAN, {"hashed", "other"})

NextRehash ==
  \/ VisitRootPointers({1, 2})
  \/ ReturnRoot
  \/ NewObject({[space |-> "OLD", size |-> 1]})
  \/ ReturnNewObject
  \/ RootArrayConstant({0, 4})
  \/ DeserializeDeferredObjects
  \/ DeferredObject(RehashEntries)
  \/ ReturnDeferred
  \/ DeferredSynchronize
  \/ Rehash

SpecRehash == InitRehashed /\ [][NextRehash]_vars

\* The step is a post-processing of the object of the innermost frame
PostProcessStep ==
  /\ Len(log') = Len(log) + 1
  /\ Last'.op \in {"NewObjectDone", "DeferredDone"}
  /\ Last'.res = "true"

\* The map of the object says NeedsRehashing / says it does not
MapIsHashTable(a) == HasRef(mem, a) /\ mem[a].obj = HashTableMap
MapIsOther(a) == HasRef(mem, a) /\ mem[a].obj # HashTableMap

C21_ModeStep ==
  PostProcessStep /\ MapIsHashTable(Top.obj)
    => toRehash' = Append(toRehash, Top.obj)

\* C21 (as stated): every hash-dependent container that is post-processed
\* is appended to the pending-rehash set, in foundational decoding as well
\* as in non-foundational decoding.
C21_QueuedInEveryMode == [][C21_ModeStep]_vars

C21_Step ==
  /\ PostProcessStep /\ MapIsHashTable(Top.obj)
       => toRehash' = (IF rehash \/ userCode
                       THEN Append(toRehash, Top.obj) ELSE toRehash)
  /\ PostProcessStep /\ MapIsOther(Top.obj) => toRehash' = toRehash
  /\ PostProcessStep
       => toRehash' \in {toRehash, Append(toRehash, Top.obj)}
  /\ ~PostProcessStep => toRehash' = toRehash
  /\ rehashed' # rehashed
       => /\ Len(log') = Len(log) + 1
          /\ Last'.op = "Rehash"
          /\ rehashed' = toRehash

\* C21: a post-processing of a hash-dependent container appends it to
\* to_rehash_ exactly when rehashing is enabled or the decoding is of user
\* code (once per post-processing, in post-processing order) and otherwise
\* appends nothing; no other step changes to_rehash_; nothing is rehashed
\* before Rehash, which visits exactly the objects of to_rehash_ in order.
C21_QueuedWhenRehashing == [][C21_Step]_vars

\* Two containers were queued and Rehash has visited both
C21_Witness ==
  /\ Len(rehashed) = 2
  /\ Last.op = "Rehash"
  /\ rehashed = toRehash
  /\ rehashed[1] # rehashed[2]

\* A container decoded without rehashing, in foundational mode, was
\* post-processed and not queued
C21_WitnessNotQueued ==
  /\ ~rehash /\ ~userCode
  /\ Last.op = "NewObjectDone" /\ Last.res = "true"
  /\ MapIsHashTable(Last.obj)
  /\ toRehash = <<>>

-----------------------------------------------------------------------------
(* Specification SpecExternal: external strings in both decoding modes *)

MaxOpsExternal == 4

InitExternal ==
  InitRehash(MaxOpsExternal, BOOLEAN, BOOLEAN, {1}, {FALSE},
             {"external", "other"})

NextExternal ==
  \/ VisitRootPointers({1, 2})
  \/ ReturnRoot
  \/ NewObject({[space |-> "OLD", size |-> 3]})
  \/ ReturnNewObject
  \/ RootArrayConstant({5, 6, 7})
  \/ FixedRawDataWords({[words |-> 2, content |-> i] : i \in {0, 1}})

SpecExternal == InitExternal /\ [][NextExternal]_vars

\* The map of the object is one of the external string maps
MapIsExternal(a) ==
  /\ HasRef(mem, a)
  /\ mem[a].obj \in {ExternalStringMap, ExternalInternalizedStringMap,
                     NativeSourceStringMap}

\* The resource word of the string holds a pointer
ResourceIsPointer(m, a) ==
  /\ (a + kResourceOffset) \in DOMAIN m
  /\ m[a + kResourceOffset].t \in {"api", "native"}

C22_Step ==
  PostProcessStep /\ MapIsExternal(Top.obj)
    => /\ externalStrings' = Append(externalStrings, Top.obj)
       /\ ResourceIsPointer(mem', Top.obj)

\* C22: every external string that is post-processed has its placeholder
\* index replaced by a resource pointer and is registered with the heap's
\* external-string table, in foundational and in user-code decoding, an
\* internalized external string in user-code decoding included.
C22_ExternalStringsRegistered == [][C22_Step]_vars

-----------------------------------------------------------------------------
(* Specification SpecAlign: alignment prefixes in spans and in the          *)
(* deferred section                                                         *)

MaxOpsAlign == 6

AlignEntries == {[new |-> TRUE, space |-> "OLD", idx |-> 0, size |-> 2]}

InitAlign == InitWith(MaxOpsAlign, BOOLEAN, {FALSE}, {1})

NextAlign ==
  \/ VisitRootPointers({1})
  \/ ReturnRoot
  \/ NewObject({[space |-> "OLD", size |-> 2]})
  \/ ReturnNewObject
  \/ RootArrayConstant({0})
  \/ AlignmentPrefix({0, 1, 2})
  \/ Deferred
  \/ DeserializeDeferredObjects
  \/ DeferredAlignmentPrefix({0, 1, 2})
  \/ DeferredObject(AlignEntries)
  \/ ReturnDeferred
  \/ DeferredSynchronize

SpecAlign == InitAlign /\ [][NextAlign]_vars

\* The step reads an opcode or runs a return; e is what it logs
StepLogged(op) == Len(log') = Len(log) + 1 /\ Last'.op = op /\ Last'.res # "abort"

C23_Step ==
  /\ StepLogged("AlignmentPrefix") \/ StepLogged("DeferredAlignmentPrefix")
       => alignment' = Last'.n + 1 /\ alignment' \in {1, 2, 3}
  /\ StepLogged("NewObject")
       => Last'.align = alignment /\ alignment' = 0
  /\ ~(StepLogged("AlignmentPrefix") \/ StepLogged("DeferredAlignmentPrefix")
       \/ StepLogged("NewObject"))
       => alignment' = alignment

\* C23: an alignment prefix sets the pending alignment to opcode -
\* (kAlignmentPrefix - 1), one of the three non-default alignments; the next
\* new-object allocation uses it and resets it, and no other step touches
\* it: a prefix of the deferred section stays pending over the entry that
\* follows it, which resolves an object already allocated.
C23_AlignmentConsumedByNextAllocation == [][C23_Step]_vars

\* A prefix of the deferred section was pending over an entry that names a
\* deferred object and served the allocation made while decoding its body
C23_Witness ==
  /\ Len(log) >= 3
  /\ Last.op = "NewObject" /\ Last.align # 0 /\ alignment = 0
  /\ \E i, j \in DOMAIN log :
       /\ i < j
       /\ log[i].op = "DeferredAlignmentPrefix" /\ log[i].n + 1 = Last.align
       /\ log[j].op = "DeferredObject"
       /\ \E o \in DOMAIN objs :
            objs[o].addr = log[j].obj /\ objs[o].st = "deferred"
       /\ \A k \in (i + 1) .. (Len(log) - 1) :
            log[k].op \notin {"NewObject", "DeferredAlignmentPrefix",
                              "AlignmentPrefix"}

\* A prefix read by ReadData served the next allocation of the span
C23_WitnessInSpan ==
  /\ Len(log) >= 2
  /\ Last.op = "NewObject" /\ Last.align = 3 /\ alignment = 0
  /\ log[Len(log) - 1].op = "AlignmentPrefix"

-----------------------------------------------------------------------------
(* C24: a nested object that defers its body, under SpecDeferral *)

MaxOpsDeferral == 6

InitDeferral == InitWith(MaxOpsDeferral, BOOLEAN, {FALSE}, {1})

NextDeferral ==
  \/ VisitRootPointers({1, 2})
  \/ ReturnRoot
  \/ NewObject({[space |-> "OLD", size |-> 2]})
  \/ ReturnNewObject
  \/ RootArrayConstant({0})
  \/ Deferred

SpecDeferral == InitDeferral /\ [][NextDeferral]_vars

\* The body decode of the innermost new object has returned false
BodyReturnedFalse ==
  /\ pc \in {"roots", "deferred"}
  /\ Len(stack) >= 2
  /\ Top.kind = "newobj"
  /\ Top.ret = "false"

\* What the enclosing ReadData does with the object whose body was deferred
SpanGoesOn ==
  /\ mem' = Store(mem, Caller.cur, Ref(Top.obj, Top.weak))
  /\ stack' = [SubSeq(stack, 1, Len(stack) - 1) EXCEPT
                 ![Len(stack) - 1].cur = Caller.cur + kPointerSize]
  /\ stack'[Len(stack')].ret = "run"
  /\ pc' = pc
  /\ UNCHANGED postVars
  /\ \A i \in DOMAIN objs :
       /\ objs'[i].posts = objs[i].posts
       /\ objs[i].addr = Top.obj => objs'[i].st = "deferred"

C24_Step == BodyReturnedFalse => SpanGoesOn /\ HasRef(mem, Top.obj)

\* C24: when the body decode of a new object returns false, the enclosing
\* ReadData writes the reference to the allocated object, whose header is
\* written, into the current slot, advances one slot and goes on with the
\* next opcode; the object is not post-processed.
C24_DeferralKeepsSpanGoing == [][C24_Step]_vars

-----------------------------------------------------------------------------
(* Specification SpecRawWeak: weak prefixes ahead of raw slot writes *)

MaxOpsRawWeak == 4

InitRawWeak == InitWith(MaxOpsRawWeak, BOOLEAN, {FALSE}, {1})

NextRawWeak ==
  \/ VisitRootPointers({2, 3})
  \/ ReturnRoot
  \/ WeakPrefix
  \/ RootArrayConstant({0})
  \/ ExternalReference({0})
  \/ ApiReference({0})
  \/ ClearedWeakReference
  \/ FixedRepeat({2})
  \/ ReturnRepeat

SpecRawWeak == InitRawWeak /\ [][NextRawWeak]_vars

\* The steps that write slots through UnalignedCopy(dest, Address)
RawWriteOps ==
  {"RootArrayConstant", "ExternalReference", "ApiReference",
   "ClearedWeakReference", "RepeatDone"}

\* C25: for every opcode stream the weak flag is clear at every raw slot
\* write (root constant, external reference, embedder reference, cleared
\* weak reference, repeated slots), and a weak prefix is never read while
\* the flag is set.
C25_WeakFlagClearAtRawWrites ==
  \A i \in DOMAIN log :
    /\ log[i].res # "abort"
    /\ log[i].op \in RawWriteOps \cup {"WeakPrefix"}
    => ~log[i].wf

-----------------------------------------------------------------------------
(* Specification SpecOverrun: raw data and repeats longer than the span *)

MaxOpsOverrun == 4

InitOverrun == InitWith(MaxOpsOverrun, BOOLEAN, {FALSE}, {1})

NextOverrun ==
  \/ VisitRootPointers({1, 2})
  \/ ReturnRoot
  \/ FixedRawData({1, 2})
  \/ VariableRawData({8, 24})
  \/ FixedRepeat({2, 3})
  \/ ReturnRepeat
  \/ RootArrayConstant({0})

SpecOverrun == InitOverrun /\ [][NextOverrun]_vars

C26_Step ==
  /\ StepLogged("FixedRawData") \/ StepLogged("VariableRawData")
       => Top.cur + Last'.val.len <= Top.lim
  /\ StepLogged("RepeatDone")
       => Caller.cur + Top.rep * kPointerSize <= Caller.lim

\* C26: ReadData writes no byte at or beyond the limit of its span: a raw
\* data copy or a repeat longer than what is left of the span is rejected
\* before anything past the limit is written.
C26_NoWritePastLimit == [][C26_Step]_vars

-----------------------------------------------------------------------------
(* Specification SpecBottomUp: nested new objects and their post-processing *)

MaxOpsBottomUp == 5

InitBottomUp == InitWith(MaxOpsBottomUp, BOOLEAN, BOOLEAN, {1})

NextBottomUp ==
  \/ VisitRootPointers({1})
  \/ ReturnRoot
  \/ NewObject({[space |-> "OLD", size |-> n] : n \in {2, 3}})
  \/ ReturnNewObject
  \/ RootArrayConstant({0, 3})
  \/ FixedRawDataWords({[words |-> 2, content |-> CanonicalContent]})
  \/ Deferred

SpecBottomUp == InitBottomUp /\ [][NextBottomUp]_vars

\* Position of the object at address a in allocation order
IndexOf(a) == CHOOSE i \in DOMAIN objs : objs[i].addr = a

\* The post-processing of this step made the object a thin string
ForwardedNow(a) ==
  /\ HasRef(mem', a) /\ mem'[a].obj = ThinStringMap
  /\ ~(HasRef(mem, a) /\ mem[a].obj = ThinStringMap)

\* What PostProcessNewObject returned for the object at a in this step
PostProcessResult(a) ==
  IF ForwardedNow(a) THEN mem'[a + kActualOffset].obj ELSE a

C27_Step ==
  StepLogged("NewObjectDone") /\ Last'.res = "true"
    => /\ \A i \in DOMAIN objs :
            i > IndexOf(Top.obj) => objs[i].st \in {"filled", "deferred"}
       /\ \A i \in DOMAIN objs :
            i > IndexOf(Top.obj) /\ objs[i].st = "filled" => objs[i].post
       /\ objs[IndexOf(Top.obj)].posts = 0
       /\ objs'[IndexOf(Top.obj)].posts = 1
       /\ ~(HasRef(mem, Caller.cur) /\ mem[Caller.cur].obj = Top.obj)
       /\ mem'[Caller.cur] = Ref(PostProcessResult(Top.obj), Top.weak)

\* C27: when ReadObject post-processes a new object, every object allocated
\* while its body was decoded has been post-processed or left deferred; the
\* reference is written into the enclosing slot only after the object's own
\* post-processing, and it is the reference to what the post-processing
\* returned.
C27_PostProcessingBottomUp == [][C27_Step]_vars

\* An object was post-processed after two objects nested in its body: one
\* post-processed and replaced by the canonical string, which is what the
\* enclosing slot got, and one left deferred
C27_Witness ==
  /\ Last.op = "NewObjectDone" /\ Last.res = "true"
  /\ Len(objs) = 2
  /\ objs[1].addr = Last.obj
  /\ objs[1].post /\ objs[2].post
  /\ HasRef(mem, objs[1].addr + kPointerSize)
  /\ mem[objs[1].addr + kPointerSize].obj = CanonicalString
  /\ CanonicalString # objs[2].addr

\* An object was post-processed while an object nested in its body is left
\* deferred
C27_WitnessDeferred ==
  /\ Last.op = "NewObjectDone" /\ Last.res = "true"
  /\ Len(objs) = 2
  /\ objs[1].addr = Last.obj
  /\ objs[1].post /\ objs[2].st = "deferred" /\ ~objs[2].post
  /\ HasRef(mem, objs[1].addr + kPointerSize)
  /\ mem[objs[1].addr + kPointerSize].obj = objs[2].addr

====
